---- MODULE Spec2Model ----
(***************************************************************************)
(* A model of the news collection pipeline of news_analyzer: the three     *)
(* link-dedupe routines, the per-source fan-out of the collectors'         *)
(* fetch_all, and the PostgreSQL batch store NewsStorage.                  *)
(*                                                                         *)
(* The specifications share the variables; each leaves the variables of    *)
(* the other parts at their idle values:                                   *)
(*   SpecDedupe    the dedupe routines applied to bounded item lists       *)
(*   SpecFetch     fetch_all of OrgCollector and MofcomCollector           *)
(*   SpecStore     save_news / load_news / list_news_files, with faults    *)
(*   SpecStoreSeq  consecutive save_news calls, the previous call recorded *)
(*   SpecConc      two NewsStorage instances saving at the same time       *)
(*   SpecPaginate  _fetch_single of one MofcomCollector source, by page    *)
(*   SpecRun       a MofcomCollector collection run, task by task          *)
(*   SpecRunFair   SpecRun on an event loop that keeps running its tasks   *)
(*   SpecRegistry  the source registry of RSSCollector                     *)
(*   SpecParse     the collectors' parsing of the raw records of a source  *)
(*   SpecEnrich    one _enrich_with_content call of MofcomCollector        *)
(*   SpecRoundTrip save_news on an empty store, then load_news             *)
(*   SpecBrowser   the browser pages of a MofcomCollector run (and         *)
(*                 SpecBrowserFair, on a running event loop)               *)
(*   SpecStream    LLMClient.chat in streaming mode                        *)
(***************************************************************************)
EXTENDS Integers, Sequences, FiniteSets, TLC

VARIABLES
    \* -- dedupe --
    d_pc,        \* "idle" | "input" | "once" | "twice"
    d_in,        \* the list handed to the routine
    d_by,        \* which routine ran: "mofcom" | "org" | "rss"
    d_out,       \* routine(d_in)
    d_out2,      \* routine(routine(d_in))
    \* -- fetch_all --
    f_pc,        \* "idle" | "input" | "done"
    f_sources,   \* per configured source, what its fetch does in this run
    f_by,        \* which collector ran: "org" | "mofcom"
    f_res,       \* what fetch_all gave back
    \* -- NewsStorage --
    s_pc,        \* "idle" | "open" | "queried"
    news_batches,  \* table news_batches: rows [batch_key, created_at]
    news_items,    \* table news_items: rows [id, batch_key, link, data]
    id_seq,        \* last value of the SERIAL sequence of news_items.id
    db_now,        \* the database clock NOW()
    wall,          \* the client's wall clock, in seconds (datetime.now())
    n_saves,       \* number of save_news calls made so far
    last,          \* the last call made on the store and what it returned
    prev,          \* the call before it (recorded under SpecStoreSeq only)
    ins_log,       \* history: <<link, batch_key>> of every row insert that took effect, in time order
    batch_log,     \* history: batch keys in the order their rows were created
    \* -- two NewsStorage instances saving at the same time --
    c_phase,     \* "idle" | "start" | "calls"
    c_call,      \* per instance, its save_news call: arguments, statements run, result
    c_pre,       \* the links stored when the two calls were made
    \* -- MofcomCollector: the pages of one source --
    p_pc,        \* "idle" | "input" | "collected" | "fetched"
    p_site,      \* how the source's site behaves in this run
    p_pages,     \* what _collect_paginated_pages gave back
    p_res,       \* what fetch_all over this one source gave back
    \* -- MofcomCollector: a collection run, task by task --
    r_pc,        \* fetch_all: "idle" | "gather" | "returned"
    detail_concurrency,  \* self.detail_concurrency
    r_src,       \* per url, its _fetch_single task: position, listing, result
    r_work,      \* per url, the _worker tasks of its _enrich_with_content call
    r_order,     \* history: the urls in the order their tasks finished
    r_ret,       \* what fetch_all returned
    \* -- RSSCollector: the registry of sources --
    g_pc,        \* "idle" | "open"
    self_sources,  \* self.sources
    g_before,    \* history: self.sources before the last call
    g_last,      \* the last call made on the registry and how it ended
    \* -- the collectors' parsing of raw records --
    h_pc,        \* "idle" | "input" | "parsed"
    h_raw,       \* which parser ran, and the raw records it was given
    h_out,       \* what the parser gave back
    \* -- MofcomCollector: one _enrich_with_content call --
    e_pc,        \* "idle" | "input" | "gather" | "returned" | "raised"
    e_conc,      \* self.detail_concurrency of the collector
    e_items,     \* history: the items as they were handed to the call
    e_work,      \* the _worker tasks: position, item, what _fetch_detail gave
    e_ret,       \* what the call returned
    \* -- MofcomCollector: the browser pages of a collection run --
    b_pc,        \* fetch_all: "idle" | "gather" | "closed" | "returned"
    b_conc,      \* self.detail_concurrency of the collector
    b_src,       \* per url, its _fetch_single task: position, its list page
    b_work,      \* per url, the _worker tasks of its items: position, detail page
    \* -- LLMClient: one chat call in streaming mode --
    l_pc,        \* "idle" | "chat" | "request" | "chunks" | "except" | "ended"
    l_full,      \* full_response: what _send_chat_request returned
    l_i,         \* the loop variable i of the chunk loop
    l_collected, \* collected_message
    l_calls      \* history: the invocations of the callback, (message, done) each

dvars == <<d_pc, d_in, d_by, d_out, d_out2>>
fvars == <<f_pc, f_sources, f_by, f_res>>
svars == <<s_pc, news_batches, news_items, id_seq, db_now, wall, n_saves, last, prev,
           ins_log, batch_log>>
cvars == <<c_phase, c_call, c_pre>>
pvars == <<p_pc, p_site, p_pages, p_res>>
rvars == <<r_pc, detail_concurrency, r_src, r_work, r_order, r_ret>>
ovars == <<cvars, pvars, rvars>>
gvars == <<g_pc, self_sources, g_before, g_last>>
hvars == <<h_pc, h_raw, h_out>>
evars == <<e_pc, e_conc, e_items, e_work, e_ret>>
bvars == <<b_pc, b_conc, b_src, b_work>>
lvars == <<l_pc, l_full, l_i, l_collected, l_calls>>
xvars == <<gvars, hvars, evars, bvars, lvars>>
oldvars == <<dvars, fvars, svars, ovars>>
notg == <<oldvars, hvars, evars, bvars, lvars>>
noth == <<oldvars, gvars, evars, bvars, lvars>>
note == <<oldvars, gvars, hvars, bvars, lvars>>
notb == <<oldvars, gvars, hvars, evars, lvars>>
notl == <<oldvars, gvars, hvars, evars, bvars>>
vars == <<dvars, fvars, svars, ovars, xvars>>

(***************************************************************************)
(* Data.  A news item is a dict; the model keeps the dedup key "link" and  *)
(* "title", which stands for the rest of the record's content.  A missing  *)
(* or empty link is the empty string (both are falsy in the code).         *)
(***************************************************************************)
Links == {"", "1", "2"}
Titles == {"A", "B"}
Items == [link : Links, title : Titles]

\* Python truthiness of a string
Truthy(s) == s # ""

\* Bounds of the input lists
MaxLen == 3

RECURSIVE SeqsUpTo(_, _)
SeqsUpTo(S, n) ==
    IF n = 0 THEN {<<>>}
    ELSE LET shorter == SeqsUpTo(S, n - 1)
         IN shorter \cup {Append(s, x) : s \in {t \in shorter : Len(t) = n - 1}, x \in S}

\* ---- a Python dict (insertion ordered): a sequence of <<key, value>> pairs ----
DictHas(d, k) == \E i \in 1..Len(d) : d[i][1] = k

DictSet(d, k, v) ==
    IF DictHas(d, k)
    THEN [i \in 1..Len(d) |-> IF d[i][1] = k THEN <<k, v>> ELSE d[i]]
    ELSE Append(d, <<k, v>>)

DictValues(d) == [i \in 1..Len(d) |-> d[i][2]]

(***************************************************************************)
(* The dedupe routines                                                     *)
(***************************************************************************)
\* A loop that loses its place when it drops an item: the one after a dropped
\* duplicate is taken unchecked.
RECURSIVE MofcomDedupeLoop_SkipAfterDrop(_, _, _)
MofcomDedupeLoop_SkipAfterDrop(items, unique, seen_links) ==
    IF items = <<>> THEN unique
    ELSE LET item == Head(items)
             link == item.link
         IN IF ~Truthy(link)
            THEN MofcomDedupeLoop_SkipAfterDrop(Tail(items), unique, seen_links)
            ELSE IF link \in seen_links
            THEN IF Len(items) >= 2
                 THEN MofcomDedupeLoop_SkipAfterDrop(Tail(Tail(items)),
                          Append(unique, items[2]), seen_links \cup {items[2].link})
                 ELSE unique
            ELSE MofcomDedupeLoop_SkipAfterDrop(Tail(items), Append(unique, item),
                                                seen_links \cup {link})

\* MofcomCollector._dedupe: the for loop, with its locals unique and seen_links
RECURSIVE MofcomDedupeLoop(_, _, _)
MofcomDedupeLoop(items, unique, seen_links) ==
    IF items = <<>> THEN unique
    ELSE LET item == Head(items)
             link == item.link
         IN IF ~Truthy(link) \/ link \in seen_links
            THEN MofcomDedupeLoop(Tail(items), unique, seen_links)
            ELSE MofcomDedupeLoop(Tail(items), Append(unique, item), seen_links \cup {link})

MofcomCollector_dedupe(items) == MofcomDedupeLoop(items, <<>>, {})

\* The loop without its "key not in unique" test: a later item overwrites the
\* first one's entry.
RECURSIVE OrgDedupeLoop_LastWins(_, _)
OrgDedupeLoop_LastWins(items, unique) ==
    IF items = <<>> THEN unique
    ELSE LET item == Head(items)
             key == item.link
         IN IF Truthy(key)
            THEN OrgDedupeLoop_LastWins(Tail(items), DictSet(unique, key, item))
            ELSE OrgDedupeLoop_LastWins(Tail(items), unique)

\* OrgCollector._dedupe: the for loop over the dict unique
RECURSIVE OrgDedupeLoop(_, _)
OrgDedupeLoop(items, unique) ==
    IF items = <<>> THEN unique
    ELSE LET item == Head(items)
             key == item.link
         IN IF Truthy(key) /\ ~DictHas(unique, key)
            THEN OrgDedupeLoop(Tail(items), DictSet(unique, key, item))
            ELSE OrgDedupeLoop(Tail(items), unique)

OrgCollector_dedupe(items) == DictValues(OrgDedupeLoop(items, <<>>))

\* RSSCollector._remove_duplicates: the for loop over the dict unique_items
RECURSIVE RssDedupeLoop(_, _)
RssDedupeLoop(news_items_arg, unique_items) ==
    IF news_items_arg = <<>> THEN unique_items
    ELSE LET item == Head(news_items_arg)
             key == item.link
         IN IF Truthy(key) /\ ~DictHas(unique_items, key)
            THEN RssDedupeLoop(Tail(news_items_arg), DictSet(unique_items, key, item))
            ELSE RssDedupeLoop(Tail(news_items_arg), unique_items)

RSSCollector_remove_duplicates(news_items_arg) ==
    DictValues(RssDedupeLoop(news_items_arg, <<>>))

DedupeBy(who, items) ==
    CASE who = "mofcom" -> MofcomCollector_dedupe(items)
      [] who = "org" -> OrgCollector_dedupe(items)
      [] who = "rss" -> RSSCollector_remove_duplicates(items)

(***************************************************************************)
(* Idle values: what a part's variables hold while another part runs       *)
(***************************************************************************)
NoResult == [exc |-> FALSE, val |-> <<>>, errors |-> 0]
NoKey == [src |-> "none", id |-> 0]
NoCall == [op |-> "none", key |-> NoKey, items |-> <<>>, at |-> 0, failed |-> FALSE,
           ret_key |-> NoKey, ret_list |-> <<>>, pre_links |-> {}]

DedupeIdle ==
    /\ d_pc = "idle" /\ d_in = <<>> /\ d_by = "" /\ d_out = <<>> /\ d_out2 = <<>>

FetchIdle ==
    /\ f_pc = "idle" /\ f_sources = <<>> /\ f_by = "" /\ f_res = NoResult

StoreEmpty ==
    /\ news_batches = {} /\ news_items = {} /\ id_seq = 0 /\ db_now = 0
    /\ wall = 0 /\ n_saves = 0 /\ last = NoCall /\ prev = NoCall
    /\ ins_log = <<>> /\ batch_log = <<>>

StoreIdle == s_pc = "idle" /\ StoreEmpty

ConcIdle ==
    /\ c_phase = "idle" /\ c_call = <<>> /\ c_pre = {}

NoPages == [exc |-> FALSE, html_pages |-> <<>>, attempted |-> <<>>]

PagesIdle ==
    /\ p_pc = "idle" /\ p_site = <<>> /\ p_pages = NoPages /\ p_res = NoResult

RunIdle ==
    /\ r_pc = "idle" /\ detail_concurrency = 0 /\ r_src = <<>> /\ r_work = <<>>
    /\ r_order = <<>> /\ r_ret = <<>>

OthersIdle == ConcIdle /\ PagesIdle /\ RunIdle

NoRegistryCall == [op |-> "", args |-> <<>>, raised |-> "", ret |-> 0]

RegistryIdle ==
    /\ g_pc = "idle" /\ self_sources = <<>> /\ g_before = <<>> /\ g_last = NoRegistryCall

NoRaw == [by |-> "", link_filter |-> "", records |-> <<>>]

ParseIdle ==
    /\ h_pc = "idle" /\ h_raw = NoRaw /\ h_out = NoResult

EnrichIdle ==
    /\ e_pc = "idle" /\ e_conc = 0 /\ e_items = <<>> /\ e_work = <<>> /\ e_ret = <<>>

BrowserIdle ==
    /\ b_pc = "idle" /\ b_conc = 0 /\ b_src = <<>> /\ b_work = <<>>

StreamIdle ==
    /\ l_pc = "idle" /\ l_full = <<>> /\ l_i = 0 /\ l_collected = <<>> /\ l_calls = <<>>

NewIdle == RegistryIdle /\ ParseIdle /\ EnrichIdle /\ BrowserIdle /\ StreamIdle

(***************************************************************************)
(* SpecDedupe: a routine is handed any list of at most MaxLen items, and   *)
(* then its own output.                                                    *)
(***************************************************************************)
InitDedupe ==
    /\ d_pc = "input"
    /\ d_in \in SeqsUpTo(Items, MaxLen)
    /\ d_by = "" /\ d_out = <<>> /\ d_out2 = <<>>
    /\ FetchIdle /\ StoreIdle /\ OthersIdle /\ NewIdle

RunDedupe(who) ==
    /\ d_pc = "input"
    /\ d_by' = who
    /\ d_out' = DedupeBy(who, d_in)
    /\ d_pc' = "once"
    /\ UNCHANGED <<d_in, d_out2, fvars, svars, ovars, xvars>>

RunMofcomDedupe == RunDedupe("mofcom")
RunOrgDedupe == RunDedupe("org")
RunRssDedupe == RunDedupe("rss")

RunDedupeAgain ==
    /\ d_pc = "once"
    /\ d_out2' = DedupeBy(d_by, d_out)
    /\ d_pc' = "twice"
    /\ UNCHANGED <<d_in, d_by, d_out, fvars, svars, ovars, xvars>>

NextDedupe == RunMofcomDedupe \/ RunOrgDedupe \/ RunRssDedupe \/ RunDedupeAgain

SpecDedupe == InitDedupe /\ [][NextDedupe]_vars

\* ---- what the claims say of a dedupe result, stated without the routines ----
\* the positions of xs holding the first occurrence of a non-empty link
FirstIdx(xs) ==
    {i \in 1..Len(xs) : Truthy(xs[i].link) /\ \A j \in 1..(i - 1) : xs[j].link # xs[i].link}

NoSharedLink(r) == \A i, j \in 1..Len(r) : i < j => r[i].link # r[j].link

\* r is exactly the first occurrences of xs, in the order of xs
IsFirstOccurrences(xs, r) ==
    /\ Len(r) = Cardinality(FirstIdx(xs))
    /\ \E f \in [1..Len(r) -> FirstIdx(xs)] :
          /\ \A i, j \in 1..Len(r) : i < j => f[i] < f[j]
          /\ \A i \in 1..Len(r) : r[i] = xs[f[i]]

\* C1: each dedupe routine returns a list in which no two items share a link,
\* which holds exactly the first occurrence of every non-empty link of its
\* input, in input order.
C1_DedupeFirstOccurrences ==
    d_pc \in {"once", "twice"} =>
        /\ NoSharedLink(d_out)
        /\ IsFirstOccurrences(d_in, d_out)

\* the case [A(link=1), B(link=2), C(link=1)] gives [A, B]
C1_Witness ==
    /\ d_pc = "once"
    /\ d_by = "org"
    /\ Len(d_in) = 3
    /\ d_in[1].link = "1" /\ d_in[2].link = "2" /\ d_in[3].link = "1"
    /\ d_in[1].title # d_in[3].title
    /\ d_out = <<d_in[1], d_in[2]>>

\* C2: dedupe is idempotent: dedupe(dedupe(xs)) = dedupe(xs), element for
\* element and in the same order.
C2_DedupeIdempotent ==
    d_pc = "twice" => d_out2 = d_out

C2_Witness ==
    /\ d_pc = "twice"
    /\ d_by = "mofcom"
    /\ Len(d_out) = 2
    /\ Len(d_in) = 3

(***************************************************************************)
(* fetch_all: the per-source fan-out.                                      *)
(* What a source does in a run is an input: its fetch returns a list of    *)
(* items or raises at one of the places where the code can raise.          *)
(*   "ok"               the fetch returns items                            *)
(*   "new_page_raises"  MofcomCollector: context.new_page() of the list    *)
(*                      page raises (outside _fetch_single's try)          *)
(*   "collect_raises"   MofcomCollector: _collect_paginated_pages raises   *)
(*   "enrich_raises"    MofcomCollector: _enrich_with_content raises       *)
(* OrgCollector has one place, _fetch_source: every kind but "ok" raises.  *)
(***************************************************************************)
\* self.urls / self.sources: the configured sources, in order
Urls == <<"u1", "u2">>

\* the most items one source lists in a run
MaxSrcItems == 3

\* Parsed items have a title and a link (_parse_news, _fetch_world_bank and
\* _fetch_html_links skip the others).
SrcItems == {[link |-> "1", title |-> "A"], [link |-> "1", title |-> "B"],
             [link |-> "2", title |-> "A"]}

Outcomes ==
    {[kind |-> "ok", items |-> l] : l \in SeqsUpTo(SrcItems, MaxSrcItems)}
    \cup {[kind |-> k, items |-> <<>>] : k \in {"new_page_raises", "collect_raises"}}
    \cup {[kind |-> "enrich_raises", items |-> <<i>>] : i \in SrcItems}

Ok(v) == [exc |-> FALSE, val |-> v]
Raise == [exc |-> TRUE, val |-> <<>>]

\* OrgCollector._fetch_source, as the run's input decides it
OrgCollector_fetch_source(source) ==
    IF source.kind = "ok" THEN Ok(source.items) ELSE Raise

\* The loop without its try/except: the first raising source ends fetch_all.
RECURSIVE OrgFetchLoop_NoTry(_, _, _)
OrgFetchLoop_NoTry(sources, all_items, errors) ==
    IF sources = <<>> THEN [exc |-> FALSE, all_items |-> all_items, errors |-> errors]
    ELSE LET r == OrgCollector_fetch_source(Head(sources))
         IN IF r.exc
            THEN [exc |-> TRUE, all_items |-> all_items, errors |-> errors]
            ELSE OrgFetchLoop_NoTry(Tail(sources), all_items \o r.val, errors)

\* OrgCollector.fetch_all: the for loop; errors counts the logger.error calls
RECURSIVE OrgFetchLoop(_, _, _)
OrgFetchLoop(sources, all_items, errors) ==
    IF sources = <<>> THEN [exc |-> FALSE, all_items |-> all_items, errors |-> errors]
    ELSE LET r == OrgCollector_fetch_source(Head(sources))
         IN IF r.exc
            THEN OrgFetchLoop(Tail(sources), all_items, errors + 1)
            ELSE OrgFetchLoop(Tail(sources), all_items \o r.val, errors)

OrgCollector_fetch_all(sources) ==
    LET r == OrgFetchLoop(sources, <<>>, 0)
    IN IF r.exc
       THEN [exc |-> TRUE, val |-> <<>>, errors |-> r.errors]
       ELSE [exc |-> FALSE, val |-> OrgCollector_dedupe(r.all_items), errors |-> r.errors]

\* MofcomCollector._enrich_with_content, as far as fetch_all sees it: the list
\* it was given, or an exception of one of its workers.  (Enrichment changes
\* description and pub_date only, which these items do not carry.)
MofcomCollector_enrich_with_content(source, items) ==
    IF items = <<>> THEN Ok(<<>>)
    ELSE IF source.kind = "enrich_raises" THEN Raise
    ELSE Ok(items)

\* MofcomCollector._fetch_single: [exc, val, errors], errors counting its own
\* logger.error calls
MofcomCollector_fetch_single(source) ==
    IF source.kind = "new_page_raises"
    THEN [exc |-> TRUE, val |-> <<>>, errors |-> 0]
    ELSE IF source.kind = "collect_raises"
    THEN [exc |-> FALSE, val |-> <<>>, errors |-> 1]
    ELSE LET deduped == MofcomCollector_dedupe(source.items)
             enriched == MofcomCollector_enrich_with_content(source, deduped)
         IN [exc |-> enriched.exc, val |-> enriched.val, errors |-> 0]

\* MofcomCollector.fetch_all: the loop over zip(self.urls, results)
RECURSIVE MofcomMergeLoop(_, _, _)
MofcomMergeLoop(results, items, errors) ==
    IF results = <<>> THEN [items |-> items, errors |-> errors]
    ELSE LET result == Head(results)
         IN IF result.exc
            THEN MofcomMergeLoop(Tail(results), items, errors + 1 + result.errors)
            ELSE MofcomMergeLoop(Tail(results), items \o result.val, errors + result.errors)

\* asyncio.gather(*tasks, return_exceptions=True): every task's result or
\* exception, in the order of the tasks
MofcomCollector_fetch_all(sources) ==
    LET results == [i \in 1..Len(sources) |-> MofcomCollector_fetch_single(sources[i])]
        merged == MofcomMergeLoop(results, <<>>, 0)
    IN [exc |-> FALSE, val |-> MofcomCollector_dedupe(merged.items),
        errors |-> merged.errors]

InitFetch ==
    /\ f_pc = "input"
    /\ f_sources \in [1..Len(Urls) -> Outcomes]
    /\ f_by = "" /\ f_res = NoResult
    /\ DedupeIdle /\ StoreIdle /\ OthersIdle /\ NewIdle

OrgFetchAll ==
    /\ f_pc = "input"
    /\ f_by' = "org"
    /\ f_res' = OrgCollector_fetch_all(f_sources)
    /\ f_pc' = "done"
    /\ UNCHANGED <<f_sources, dvars, svars, ovars, xvars>>

MofcomFetchAll ==
    /\ f_pc = "input"
    /\ f_by' = "mofcom"
    /\ f_res' = MofcomCollector_fetch_all(f_sources)
    /\ f_pc' = "done"
    /\ UNCHANGED <<f_sources, dvars, svars, ovars, xvars>>

NextFetch == OrgFetchAll \/ MofcomFetchAll

SpecFetch == InitFetch /\ [][NextFetch]_vars

\* the sources of a run whose fetch raises
RaisingSources(sources) == {i \in 1..Len(sources) : sources[i].kind # "ok"}

\* the items of the sources that do not raise, source after source
RECURSIVE ItemsOfOkSources(_)
ItemsOfOkSources(sources) ==
    IF sources = <<>> THEN <<>>
    ELSE (IF Head(sources).kind = "ok" THEN Head(sources).items ELSE <<>>)
         \o ItemsOfOkSources(Tail(sources))

\* C3: whatever subset of the sources raises, fetch_all does not raise, logs
\* one failure per raising source, and returns exactly the link-deduplicated
\* concatenation, in source order, of the items of the other sources.
C3_FetchAllIsolatesSources ==
    f_pc = "done" =>
        /\ ~f_res.exc
        /\ f_res.errors = Cardinality(RaisingSources(f_sources))
        /\ NoSharedLink(f_res.val)
        /\ IsFirstOccurrences(ItemsOfOkSources(f_sources), f_res.val)

\* S1 raises and S2 yields 3 items: exactly S2's items, deduplicated
C3_Witness ==
    /\ f_pc = "done"
    /\ f_sources[1].kind # "ok"
    /\ f_sources[2].kind = "ok"
    /\ Len(f_sources[2].items) = 3
    /\ f_res.errors = 1
    /\ ~f_res.exc
    /\ Len(f_res.val) = 2
    /\ f_res.val[1] = f_sources[2].items[1]

(***************************************************************************)
(* NewsStorage: the PostgreSQL batch store.                                *)
(*                                                                         *)
(* The connection is opened with autocommit = True, so every statement is  *)
(* its own transaction: what a statement did stays done when a later       *)
(* statement of the same call raises.  A storage fault is an input of a    *)
(* call: which of its statements raises, if any.                           *)
(*                                                                         *)
(* A batch key is [src, id]: "caller" keys are the names callers pass,     *)
(* "timestamp" keys are news_<%Y%m%d_%H%M%S>.json of the wall clock second *)
(* id, and NoKey is None (or any falsy filename).                          *)
(***************************************************************************)
CallerKeys == {[src |-> "caller", id |-> 1], [src |-> "caller", id |-> 2]}

TimestampKey(t) == [src |-> "timestamp", id |-> t]

\* the items handed to save_news: with and without a link, two records of one link
StoreItems == {[link |-> "", title |-> "A"], [link |-> "1", title |-> "A"],
               [link |-> "1", title |-> "B"], [link |-> "2", title |-> "A"]}

\* the keys save_news is called with in SpecStore: none, and one name
SaveKeys == {NoKey, [src |-> "caller", id |-> 1]}

\* Bounds of the store runs: the save_news calls of a run, the items of a call
MaxSaves == 2
MaxSaveLen == 2

\* the database, as one value
Db == [batches |-> news_batches, items |-> news_items, id_seq |-> id_seq, now |-> db_now]
EmptyDb == [batches |-> {}, items |-> {}, id_seq |-> 0, now |-> 0]

\* INSERT INTO news_batches without the primary key's conflict check
InsertBatch_NoPrimaryKey(db, key) ==
    [db EXCEPT !.batches = @ \cup {[batch_key |-> key, created_at |-> db.now]},
               !.now = @ + 1]

\* INSERT INTO news_batches ... ON CONFLICT (batch_key) DO UPDATE SET
\* created_at = NOW(): a conflicting key renews the batch's creation time
InsertBatch_Touch(db, key) ==
    [db EXCEPT !.batches = {b \in @ : b.batch_key # key}
                           \cup {[batch_key |-> key, created_at |-> db.now]},
               !.now = @ + 1]

\* INSERT INTO news_batches (batch_key) VALUES (%s) ON CONFLICT (batch_key) DO NOTHING;
\* created_at defaults to NOW().  Only the order of the created_at values is
\* read (ORDER BY), so the clock is counted in rows created.
InsertBatch(db, key) ==
    IF \E b \in db.batches : b.batch_key = key
    THEN db
    ELSE [db EXCEPT !.batches = @ \cup {[batch_key |-> key, created_at |-> db.now]},
                    !.now = @ + 1]

\* a document that keeps the link of the item only
Json_LinkOnly(item) == {<<"link", item.link>>}

\* psycopg2.extras.Json(item) as the statement sends it and the jsonb column
\* keeps it: a JSON object, the pairs of a key and its value, each key once
Json(item) == {<<k, item[k]>> : k \in DOMAIN item}

\* row[0] of a fetched row: the jsonb value as psycopg2 gives it back, a dict
FromJson(doc) == [k \in {p[1] : p \in doc} |-> (CHOOSE p \in doc : p[1] = k)[2]]

\* INSERT INTO news_items without the unique index on link
InsertItem_NoUniqueIndex(db, row) ==
    [db EXCEPT !.items = @ \cup {[id |-> db.id_seq + 1, batch_key |-> row[1],
                                  link |-> row[2], data |-> Json(row[3])]},
               !.id_seq = @ + 1]

\* INSERT INTO news_items ... ON CONFLICT (link) DO UPDATE: the row of a link
\* already stored is moved to the new batch with the new record
InsertItem_Upsert(db, row) ==
    [db EXCEPT !.items = {r \in @ : r.link # row[2]}
                         \cup {[id |-> db.id_seq + 1, batch_key |-> row[1],
                                link |-> row[2], data |-> Json(row[3])]},
               !.id_seq = @ + 1]

\* INSERT INTO news_items (batch_key, link, data) VALUES (%s, %s, %s)
\* ON CONFLICT (link) DO NOTHING;  id is SERIAL.  Only the order of the ids is
\* read (ORDER BY), so the sequence is counted in rows inserted (PostgreSQL
\* also draws a value for a skipped row, which leaves a gap and the same order).
InsertItem(db, row) ==
    IF \E r \in db.items : r.link = row[2]
    THEN db
    ELSE [db EXCEPT !.items = @ \cup {[id |-> db.id_seq + 1, batch_key |-> row[1],
                                        link |-> row[2], data |-> Json(row[3])]},
                    !.id_seq = @ + 1]

\* cur.executemany: the statement once per row, in order; n rows are executed
RECURSIVE ExecuteMany(_, _, _)
ExecuteMany(db, rows, n) ==
    IF n = 0 \/ rows = <<>> THEN db
    ELSE ExecuteMany(InsertItem(db, Head(rows)), Tail(rows), n - 1)

\* insert_rows: (filename, link, Json(item)) of every item with a link
RECURSIVE InsertRows(_, _)
InsertRows(items, filename) ==
    IF items = <<>> THEN <<>>
    ELSE LET item == Head(items)
             link == item.link
         IN IF ~Truthy(link)
            THEN InsertRows(Tail(items), filename)
            ELSE <<<<filename, link, item>>>> \o InsertRows(Tail(items), filename)

\* the key save_news works with
EffectiveKey(filename, clock) ==
    IF filename = NoKey THEN TimestampKey(clock) ELSE filename

\* The statements a save_news call runs: 1 is the batch insert, 1 + i the
\* insert of the i-th row.  fault = 0: none raises; fault = k: statement k raises.
SaveFaults(items, filename) ==
    IF items = <<>> THEN {0} ELSE 0..(1 + Len(InsertRows(items, filename)))

\* NewsStorage.save_news(news_items, filename): [db, ret, failed]
NewsStorage_save_news(db, clock, items, filename, fault) ==
    IF items = <<>>
    THEN [db |-> db, ret |-> NoKey, failed |-> FALSE]
    ELSE LET fname == EffectiveKey(filename, clock)
             insert_rows == InsertRows(items, fname)
         IN IF fault = 1
            THEN [db |-> db, ret |-> NoKey, failed |-> TRUE]
            ELSE IF fault >= 2
            THEN [db |-> ExecuteMany(InsertBatch(db, fname), insert_rows, fault - 2),
                  ret |-> NoKey, failed |-> TRUE]
            ELSE [db |-> ExecuteMany(InsertBatch(db, fname), insert_rows, Len(insert_rows)),
                  ret |-> fname, failed |-> FALSE]

\* ORDER BY id ASC
RECURSIVE OrderById(_)
OrderById(rows) ==
    IF rows = {} THEN <<>>
    ELSE LET m == CHOOSE r \in rows : \A q \in rows : r.id <= q.id
         IN <<m>> \o OrderById(rows \ {m})

\* ORDER BY id DESC
RECURSIVE OrderByIdDesc(_)
OrderByIdDesc(rows) ==
    IF rows = {} THEN <<>>
    ELSE LET m == CHOOSE r \in rows : \A q \in rows : r.id >= q.id
         IN <<m>> \o OrderByIdDesc(rows \ {m})

\* ORDER BY created_at ASC
RECURSIVE OrderByCreatedAt(_)
OrderByCreatedAt(rows) ==
    IF rows = {} THEN <<>>
    ELSE LET m == CHOOSE r \in rows : \A q \in rows : r.created_at <= q.created_at
         IN <<m>> \o OrderByCreatedAt(rows \ {m})

\* the query with ORDER BY created_at ASC: the oldest batch
LatestBatch_Oldest(db) ==
    LET ordered == OrderByCreatedAt(db.batches)
    IN IF ordered = <<>> THEN NoKey ELSE ordered[1].batch_key

\* SELECT batch_key FROM news_batches ORDER BY created_at DESC LIMIT 1
LatestBatch(db) ==
    LET ordered == OrderByCreatedAt(db.batches)
    IN IF ordered = <<>> THEN NoKey ELSE ordered[Len(ordered)].batch_key

\* the rows of a batch read newest first
SelectData_NewestFirst(db, batch_key) ==
    LET rows == OrderByIdDesc({r \in db.items : r.batch_key = batch_key})
    IN [i \in 1..Len(rows) |-> FromJson(rows[i].data)]

\* SELECT data FROM news_items WHERE batch_key = %s ORDER BY id ASC
SelectData(db, batch_key) ==
    LET rows == OrderById({r \in db.items : r.batch_key = batch_key})
    IN [i \in 1..Len(rows) |-> FromJson(rows[i].data)]

\* NewsStorage.load_news(filename): [ret, failed]; fault: a statement raises
NewsStorage_load_news(db, filename, fault) ==
    IF fault THEN [ret |-> <<>>, failed |-> TRUE]
    ELSE IF filename = NoKey /\ db.batches = {}
    THEN [ret |-> <<>>, failed |-> FALSE]
    ELSE LET batch_key == IF filename = NoKey THEN LatestBatch(db) ELSE filename
         IN [ret |-> SelectData(db, batch_key), failed |-> FALSE]

\* NewsStorage.list_news_files(): [ret, failed]
NewsStorage_list_news_files(db, fault) ==
    IF fault THEN [ret |-> <<>>, failed |-> TRUE]
    ELSE LET rows == OrderByCreatedAt(db.batches)
         IN [ret |-> [i \in 1..Len(rows) |-> rows[i].batch_key], failed |-> FALSE]

(***************************************************************************)
(* The store's operations as actions.  last records the call: its          *)
(* arguments (key, items), the wall clock second it was made at, whether a *)
(* statement raised (failed), the links stored before it (pre_links) and   *)
(* what it returned (ret_key for a key or None, ret_list for a list).      *)
(* SpecStore keeps the items and pre_links of no call, and a run of it     *)
(* ends with at most one query: a query leaves the store as it is, so what *)
(* any query of any run returns is what the last query of a shorter run    *)
(* returns.                                                                *)
(***************************************************************************)
StoredLinks == {r.link : r \in news_items}

\* history: the rows among the first n of rows that take effect, in order
RECURSIVE NewInserts(_, _, _)
NewInserts(present, rows, n) ==
    IF n = 0 \/ rows = <<>> THEN <<>>
    ELSE LET row == Head(rows)
         IN IF row[2] \in present
            THEN NewInserts(present, Tail(rows), n - 1)
            ELSE <<[batch_key |-> row[1], data |-> row[3]]>>
                 \o NewInserts(present \cup {row[2]}, Tail(rows), n - 1)

\* One save_news call, made at wall clock second clock.  op names the caller's
\* operation; tracked: whether the call before this one stays on record.
Save(op, clock, items, filename, fault, tracked) ==
    /\ s_pc = "open"
    /\ LET r == NewsStorage_save_news(Db, clock, items, filename, fault)
           fname == EffectiveKey(filename, clock)
           rows == InsertRows(items, fname)
           reached == items # <<>> /\ fault # 1
           n == IF ~reached THEN 0 ELSE IF fault = 0 THEN Len(rows) ELSE fault - 2
       IN /\ news_batches' = r.db.batches
          /\ news_items' = r.db.items
          /\ id_seq' = r.db.id_seq
          /\ db_now' = r.db.now
          /\ batch_log' = IF reached /\ ~(\E b \in news_batches : b.batch_key = fname)
                          THEN Append(batch_log, fname)
                          ELSE batch_log
          /\ ins_log' = ins_log \o NewInserts(StoredLinks, rows, n)
          /\ last' = [op |-> op, key |-> filename,
                      items |-> IF tracked THEN items ELSE <<>>,
                      at |-> clock, failed |-> r.failed, ret_key |-> r.ret,
                      ret_list |-> IF op = "fetch_and_save" THEN items ELSE <<>>,
                      pre_links |-> IF tracked THEN StoredLinks ELSE {}]
    /\ wall' = clock
    /\ prev' = IF tracked THEN last ELSE NoCall
    /\ n_saves' = n_saves + 1
    /\ UNCHANGED <<s_pc, dvars, fvars, ovars, xvars>>

\* datetime.now() of a call that has items and names no key: the second read
\* by the last such call, or a later one (only whether two readings are the
\* same second matters).  Any other call does not read the clock.
Clocks(items, filename) ==
    IF items # <<>> /\ filename = NoKey THEN {wall, wall + 1} ELSE {wall}

\* storage.save_news(news_items, filename)
SaveNews ==
    /\ n_saves < MaxSaves
    /\ \E items \in SeqsUpTo(StoreItems, MaxSaveLen), filename \in SaveKeys :
          \E clock \in Clocks(items, filename), fault \in SaveFaults(items, filename) :
             Save("save", clock, items, filename, fault, FALSE)

\* what a source of fetch_and_save's run does: at most one item listed
SaveOutcomes ==
    {o \in Outcomes : Len(o.items) <= 1}

\* what fetch_all can hand to save_news in such a run
Collected ==
    {MofcomCollector_fetch_all(sources).val : sources \in [1..Len(Urls) -> SaveOutcomes]}

\* MofcomCollector.fetch_and_save(storage, batch_key): fetch_all, then
\* storage.save_news of what it collected; returns (saved_batch, news_items)
FetchAndSave ==
    /\ n_saves < MaxSaves
    /\ \E news_items_arg \in Collected, batch_key \in SaveKeys :
          \E clock \in Clocks(news_items_arg, batch_key), fault \in SaveFaults(news_items_arg, batch_key) :
             Save("fetch_and_save", clock, news_items_arg, batch_key, fault, FALSE)

LoadKeys == {NoKey} \cup CallerKeys \cup {TimestampKey(t) : t \in 0..wall}

\* storage.load_news(filename)
LoadNews ==
    /\ s_pc = "open"
    /\ \E filename \in LoadKeys, fault \in BOOLEAN :
          LET r == NewsStorage_load_news(Db, filename, fault)
          IN last' = [op |-> "load", key |-> filename, items |-> <<>>, at |-> wall,
                      failed |-> r.failed, ret_key |-> NoKey, ret_list |-> r.ret,
                      pre_links |-> {}]
    /\ prev' = NoCall
    /\ s_pc' = "queried"
    /\ UNCHANGED <<news_batches, news_items, id_seq, db_now, wall, n_saves,
                   ins_log, batch_log, dvars, fvars, ovars, xvars>>

\* storage.list_news_files()
ListNewsFiles ==
    /\ s_pc = "open"
    /\ \E fault \in BOOLEAN :
          LET r == NewsStorage_list_news_files(Db, fault)
          IN last' = [op |-> "list", key |-> NoKey, items |-> <<>>, at |-> wall,
                      failed |-> r.failed, ret_key |-> NoKey, ret_list |-> r.ret,
                      pre_links |-> {}]
    /\ prev' = NoCall
    /\ s_pc' = "queried"
    /\ UNCHANGED <<news_batches, news_items, id_seq, db_now, wall, n_saves,
                   ins_log, batch_log, dvars, fvars, ovars, xvars>>

\* NewsStorage(): connected, the tables created, nothing stored yet
InitStore ==
    /\ s_pc = "open"
    /\ StoreEmpty
    /\ DedupeIdle /\ FetchIdle /\ OthersIdle /\ NewIdle

NextStore == SaveNews \/ FetchAndSave \/ LoadNews \/ ListNewsFiles

SpecStore == InitStore /\ [][NextStore]_vars

(***************************************************************************)
(* SpecStoreSeq: save_news calls of one item under a caller's key, one     *)
(* after the other, the call before the last kept on record in prev.       *)
(***************************************************************************)
MaxSeqSaves == 3

SaveNewsInSequence ==
    /\ n_saves < MaxSeqSaves
    /\ \E item \in StoreItems, filename \in CallerKeys :
          \E clock \in Clocks(<<item>>, filename), fault \in SaveFaults(<<item>>, filename) :
             Save("save", clock, <<item>>, filename, fault, TRUE)

NextStoreSeq == SaveNewsInSequence

SpecStoreSeq == InitStore /\ [][NextStoreSeq]_vars

(***************************************************************************)
(* Claims about the store                                                  *)
(***************************************************************************)
\* what load_news(k) gives when no statement raises
Load(k) == NewsStorage_load_news(Db, k, FALSE).ret

\* the last two calls were save_news of one item with a link, and no statement
\* of either raised
TwoSavesOfOneItem ==
    /\ prev.op = "save" /\ last.op = "save"
    /\ ~prev.failed /\ ~last.failed
    /\ Len(prev.items) = 1 /\ Len(last.items) = 1
    /\ Truthy(prev.items[1].link)
    /\ prev.items[1].link = last.items[1].link

\* C4: from a store without link x, save([item(link=x)], key=b) twice in a
\* row (no statement raising) leaves exactly one stored item with link x,
\* owned by batch b, exactly one batch row b, and both calls return b.
C4_SaveTwiceIsIdempotent ==
    (/\ TwoSavesOfOneItem
     /\ prev.items = last.items
     /\ prev.key = last.key
     /\ prev.items[1].link \notin prev.pre_links)
    => LET x == last.items[1].link
           b == last.key
       IN /\ Cardinality({r \in news_items : r.link = x}) = 1
          /\ \A r \in news_items : r.link = x => r.batch_key = b /\ FromJson(r.data) = last.items[1]
          /\ Cardinality({r \in news_batches : r.batch_key = b}) = 1
          /\ prev.ret_key = b
          /\ last.ret_key = b

C4_Witness ==
    /\ TwoSavesOfOneItem
    /\ prev.items = last.items
    /\ prev.key = last.key
    /\ prev.items[1].link \notin prev.pre_links
    /\ prev.pre_links # {}
    /\ Cardinality(news_items) = 2

\* the last two calls: save([item(link=x)], key=b1), then save([item'], key=b2)
\* with another record of the same link x and another key
SaveThenSaveElsewhere ==
    /\ TwoSavesOfOneItem
    /\ prev.items[1] # last.items[1]
    /\ prev.key # last.key

\* what C5 says of the store after the two calls
SuppressedInSecondBatch ==
    LET x == prev.items[1].link
        b1 == prev.key
        b2 == last.key
    IN /\ \A i \in 1..Len(Load(b2)) : Load(b2)[i].link # x
       /\ \E i \in 1..Len(Load(b1)) : Load(b1)[i] = prev.items[1]
       /\ \E b \in news_batches : b.batch_key = b2

\* C5 as stated: after save([item(link=x)], key=b1) and then save([item'],
\* key=b2), load(b2) holds no item with link x, load(b1) still holds the
\* original item, and batch b2 exists.
C5_AsStated ==
    SaveThenSaveElsewhere => SuppressedInSecondBatch

\* C5, amended: the same, from a store that does not hold link x before the
\* first of the two calls.
C5_CrossBatchSuppression ==
    (SaveThenSaveElsewhere /\ prev.items[1].link \notin prev.pre_links)
    => SuppressedInSecondBatch

C5_Witness ==
    /\ SaveThenSaveElsewhere
    /\ prev.items[1].link \notin prev.pre_links
    /\ Load(last.key) = <<>>
    /\ Load(prev.key) = prev.items

\* C6: after any save calls, no two stored items have the same link (across
\* all batches), and every stored item has a non-empty link and an owning
\* batch key that is in the batch set.
C6_StoreInvariant ==
    /\ \A r, q \in news_items : r.link = q.link => r = q
    /\ \A r \in news_items :
          /\ Truthy(r.link)
          /\ \E b \in news_batches : b.batch_key = r.batch_key

\* two items in two batches, the second left behind by a call that failed
C6_Witness ==
    /\ last.op = "save"
    /\ last.failed
    /\ \E r, q \in news_items : r.batch_key # q.batch_key
    /\ n_saves = 2

\* C7: every save call that hits no storage error returns the batch key it
\* used (the caller's key when one is given, otherwise the timestamp key),
\* also when it inserts no new item; fetch_and_save returns that key.
C7_SaveReturnsKeyUsed ==
    (last.op \in {"save", "fetch_and_save"} /\ ~last.failed)
    => last.ret_key = EffectiveKey(last.key, last.at)

\* C8: a storage failure during save, load or list_news_files gives the
\* caller a result that no successful call gives: a failed load is not what
\* a load of an empty batch or of a store without batches returns.
C8_FailureIsDistinguishable ==
    last.failed =>
        CASE last.op = "load" ->
                /\ last.ret_list # NewsStorage_load_news(EmptyDb, NoKey, FALSE).ret
                /\ last.ret_list #
                      NewsStorage_load_news(InsertBatch(EmptyDb, last.key), last.key, FALSE).ret
          [] last.op = "list" ->
                last.ret_list # NewsStorage_list_news_files(EmptyDb, FALSE).ret
          [] OTHER ->
                last.ret_key = NoKey

\* C9: a save call that reports failure leaves the store as it was, with no
\* batch row and no item of the call committed; a call that succeeds stores
\* every item with a link that was not in the store.
C9_FailedSaveCommitsNothing ==
    [][(n_saves' = n_saves + 1) =>
          /\ last'.failed =>
                (news_batches' = news_batches /\ news_items' = news_items)
          /\ ~last'.failed =>
                \A i \in 1..Len(last'.items) :
                    (Truthy(last'.items[i].link) /\ last'.items[i].link \notin last'.pre_links)
                    => \E r \in news_items' : FromJson(r.data) = last'.items[i]]_vars

\* history read back: the records logged for batch k, in the order logged
RECURSIVE DataLoggedFor(_, _)
DataLoggedFor(log, k) ==
    IF log = <<>> THEN <<>>
    ELSE (IF Head(log).batch_key = k THEN <<Head(log).data>> ELSE <<>>)
         \o DataLoggedFor(Tail(log), k)

\* C10: load(k) returns exactly the stored items owned by batch k, in the
\* order they were inserted; load() returns load(m) for the most recently
\* created batch m; load() on a store without batches returns the empty list.
C10_LoadReturnsBatchInOrder ==
    (last.op = "load" /\ ~last.failed)
    => LET m == IF batch_log = <<>> THEN NoKey ELSE batch_log[Len(batch_log)]
           k == IF last.key = NoKey THEN m ELSE last.key
       IN /\ last.ret_list = DataLoggedFor(ins_log, k)
          /\ {last.ret_list[i] : i \in 1..Len(last.ret_list)}
                = {FromJson(r.data) : r \in {q \in news_items : q.batch_key = k}}
          /\ Len(last.ret_list) = Cardinality({q \in news_items : q.batch_key = k})
          /\ (news_batches = {} /\ last.key = NoKey) => last.ret_list = <<>>

\* load() with two batches stored: the item of the later one
C10_Witness ==
    /\ last.op = "load" /\ ~last.failed
    /\ last.key = NoKey
    /\ Len(batch_log) = 2
    /\ Len(ins_log) = 2
    /\ ins_log[1].batch_key = batch_log[1]
    /\ last.ret_list = <<ins_log[2].data>>

\* the items of ys that a save inserts according to the claims: those with a
\* link that is not stored when their turn comes, in ys order
RECURSIVE FreshItems(_, _)
FreshItems(ys, stored) ==
    IF ys = <<>> THEN <<>>
    ELSE IF Truthy(Head(ys).link) /\ Head(ys).link \notin stored
         THEN <<Head(ys)>> \o FreshItems(Tail(ys), stored \cup {Head(ys).link})
         ELSE FreshItems(Tail(ys), stored)

\* a step that is a save_news call under a key the store already holds
IsResave ==
    /\ n_saves' = n_saves + 1
    /\ last'.items # <<>>
    /\ \E b \in news_batches : b.batch_key = EffectiveKey(last'.key, last'.at)

\* C11: a save(ys, k) under an existing key k is additive: what load(k)
\* returned before the call is a prefix of what it returns afterwards, the
\* items of ys with a link not yet stored are appended after it (when no
\* statement raises), and every row stored before the call is still stored
\* with the same record and the same owning batch.
C11_ResaveIsAdditive ==
    [][IsResave =>
          LET k == EffectiveKey(last'.key, last'.at)
              before == NewsStorage_load_news(Db, k, FALSE).ret
              after == NewsStorage_load_news(Db', k, FALSE).ret
          IN /\ Len(after) >= Len(before)
             /\ SubSeq(after, 1, Len(before)) = before
             /\ ~last'.failed => after = before \o FreshItems(last'.items, StoredLinks)
             /\ \A r \in news_items : r \in news_items']_vars

\* a second item was appended to a batch by a later call
C11_Witness ==
    /\ prev.op = "save" /\ last.op = "save"
    /\ ~last.failed
    /\ \E b \in news_batches : b.batch_key = last.key /\ b.created_at < db_now - 1
    /\ Len(Load(last.key)) = 2
    /\ Load(last.key)[2] = last.items[1]
    /\ last.items[1].link \notin last.pre_links

\* C12: a save under a key that already exists leaves the batch rows, the
\* sequence list_news_files returns and the batch load() takes as the most
\* recent one as they were before the call.
C12_ExistingBatchUnchanged ==
    [][IsResave =>
          /\ news_batches' = news_batches
          /\ NewsStorage_list_news_files(Db', FALSE).ret
                = NewsStorage_list_news_files(Db, FALSE).ret
          /\ LatestBatch(Db') = LatestBatch(Db)]_vars

\* the older of two batches was saved to again, and took the item
C12_Witness ==
    /\ last.op = "save" /\ ~last.failed
    /\ Len(batch_log) = 2
    /\ last.key = batch_log[1]
    /\ LatestBatch(Db) = batch_log[2]
    /\ n_saves = 3
    /\ \E r \in news_items : r.batch_key = last.key /\ FromJson(r.data) = last.items[1] /\ r.id = id_seq

(***************************************************************************)
(* SpecConc: two NewsStorage instances, each with its own autocommit       *)
(* connection to the same database, run save_news at the same time.  Every *)
(* statement is its own transaction, so the calls interleave statement by  *)
(* statement; INSERT ... ON CONFLICT DO NOTHING is atomic in the database  *)
(* and raises nothing on a conflict.  An earlier save may have filled the  *)
(* store before the two calls are made.                                    *)
(***************************************************************************)
\* Bound of the item lists of the two calls
MaxConcLen == 1

Instances == 1..2

ConcKeys == {NoKey} \cup CallerKeys

\* the store before the two calls: one save_news call that went through
EarlierSave ==
    /\ c_phase = "start"
    /\ n_saves = 0
    /\ \E item \in StoreItems, filename \in SaveKeys :
          Save("save", wall, <<item>>, filename, 0, FALSE)

\* both instances enter save_news(news_items, filename)
CallSaveNews ==
    /\ c_phase = "start"
    /\ \E items \in [Instances -> SeqsUpTo(StoreItems, MaxConcLen)],
          filename \in [Instances -> ConcKeys] :
          \E clock \in [Instances -> {wall, wall + 1}] :
             /\ \A p \in Instances : clock[p] \in Clocks(items[p], filename[p])
             /\ c_call' = [p \in Instances |->
                             [items |-> items[p], key |-> filename[p], at |-> clock[p],
                              step |-> 0, returned |-> FALSE, ret |-> NoKey]]
    /\ c_pre' = StoredLinks
    /\ c_phase' = "calls"
    /\ UNCHANGED <<dvars, fvars, svars, pvars, rvars, xvars>>

\* instance p runs its next statement; after its last one the call returns
SaveStatement(p) ==
    /\ c_phase = "calls"
    /\ ~c_call[p].returned
    /\ LET c == c_call[p]
           fname == EffectiveKey(c.key, c.at)
           insert_rows == InsertRows(c.items, fname)
           total == IF c.items = <<>> THEN 0 ELSE 1 + Len(insert_rows)
           k == c.step + 1
           db == IF total = 0 THEN Db
                 ELSE IF k = 1 THEN InsertBatch(Db, fname)
                 ELSE InsertItem(Db, insert_rows[k - 1])
       IN /\ news_batches' = db.batches /\ news_items' = db.items
          /\ id_seq' = db.id_seq /\ db_now' = db.now
          /\ batch_log' = IF db.batches # news_batches
                          THEN Append(batch_log, fname) ELSE batch_log
          /\ ins_log' = IF db.items # news_items
                        THEN Append(ins_log, [batch_key |-> fname,
                                              data |-> insert_rows[k - 1][3]])
                        ELSE ins_log
          /\ c_call' = [c_call EXCEPT ![p] =
                          IF total = 0
                          THEN [c EXCEPT !.returned = TRUE]
                          ELSE [c EXCEPT !.step = k,
                                         !.returned = (k = total),
                                         !.ret = IF k = total THEN fname ELSE NoKey]]
    /\ UNCHANGED <<s_pc, wall, n_saves, last, prev, c_phase, c_pre, dvars, fvars, pvars, rvars, xvars>>

RunSaveStatement == \E p \in Instances : SaveStatement(p)

InitConc ==
    /\ s_pc = "open"
    /\ StoreEmpty
    /\ c_phase = "start" /\ c_call = <<>> /\ c_pre = {}
    /\ DedupeIdle /\ FetchIdle /\ PagesIdle /\ RunIdle /\ NewIdle

NextConc == EarlierSave \/ CallSaveNews \/ RunSaveStatement

SpecConc == InitConc /\ [][NextConc]_vars

\* the links both item lists hold, and the keys the two calls work with
SharedLinks ==
    {x \in Links : Truthy(x) /\ \A p \in Instances :
                                   \E i \in 1..Len(c_call[p].items) : c_call[p].items[i].link = x}

KeyOf(p) == EffectiveKey(c_call[p].key, c_call[p].at)

\* both calls have returned, and they shared a link or a key
BothSavesDone ==
    /\ c_phase = "calls"
    /\ \A p \in Instances : c_call[p].returned
    /\ \A p \in Instances : c_call[p].items # <<>>
    /\ (SharedLinks # {} \/ KeyOf(1) = KeyOf(2))

\* what C13 says of the store and of the results once both calls are done
OneRowPerSharedLinkAndKey ==
    /\ \A x \in SharedLinks :
          /\ Cardinality({r \in news_items : r.link = x}) = 1
          /\ \A r \in news_items : r.link = x => r.batch_key \in {KeyOf(1), KeyOf(2)}
    /\ \A p \in Instances :
          /\ Cardinality({b \in news_batches : b.batch_key = KeyOf(p)}) = 1
          /\ c_call[p].ret = KeyOf(p)

MaxPages == 3

AdvFaults == {"none", "click", "networkidle", "page_number", "ready", "content"}

StartPages ==
    {[goto |-> "raises", ready |-> "ok", idle |-> "ok"],
     [goto |-> "ok", ready |-> "ok", idle |-> "ok"],
     [goto |-> "ok", ready |-> "timeout", idle |-> "ok"],
     [goto |-> "ok", ready |-> "timeout", idle |-> "timeout"]}

Sites ==
    UNION {[start : StartPages, total_pages : {n}, adv : [2..n -> AdvFaults]] :
              n \in 1..MaxPages}

\* _load_page without the except branch: a ready timeout ends the load
MofcomCollector_load_page_NoFallback(site) ==
    IF site.start.goto = "raises" \/ site.start.ready = "timeout"
    THEN [exc |-> TRUE, html |-> 0]
    ELSE [exc |-> FALSE, html |-> 1]

\* MofcomCollector._load_page: [exc, html]
MofcomCollector_load_page(site) ==
    IF site.start.goto = "raises"
    THEN [exc |-> TRUE, html |-> 0]
    ELSE IF site.start.ready = "timeout"
    THEN IF site.start.idle = "timeout"
         THEN [exc |-> TRUE, html |-> 0]
         ELSE [exc |-> FALSE, html |-> 1]
    ELSE [exc |-> FALSE, html |-> 1]

\* _click_page with both waits in a try that falls back to the page as it is
MofcomCollector_click_page_Degrading(site, page_num) ==
    site.adv[page_num] \in {"click", "networkidle"}

\* MofcomCollector._click_page: TRUE when it raises; none of its awaits is
\* in a try
MofcomCollector_click_page(site, page_num) ==
    site.adv[page_num] \in {"click", "networkidle", "page_number", "ready"}

\* the for loop with "continue" in the except branch in place of "break"
RECURSIVE PaginationLoop_Continue(_, _, _, _)
PaginationLoop_Continue(site, page_num, html_pages, attempted) ==
    IF page_num > site.total_pages
    THEN [exc |-> FALSE, html_pages |-> html_pages, attempted |-> attempted]
    ELSE IF MofcomCollector_click_page(site, page_num) \/ site.adv[page_num] = "content"
    THEN PaginationLoop_Continue(site, page_num + 1, html_pages, Append(attempted, page_num))
    ELSE PaginationLoop_Continue(site, page_num + 1, Append(html_pages, page_num),
                                 Append(attempted, page_num))

\* for page_num in range(2, total_pages + 1): try ... except: break
RECURSIVE PaginationLoop(_, _, _, _)
PaginationLoop(site, page_num, html_pages, attempted) ==
    IF page_num > site.total_pages
    THEN [exc |-> FALSE, html_pages |-> html_pages, attempted |-> attempted]
    ELSE IF MofcomCollector_click_page(site, page_num) \/ site.adv[page_num] = "content"
    THEN [exc |-> FALSE, html_pages |-> html_pages,
          attempted |-> Append(attempted, page_num)]
    ELSE PaginationLoop(site, page_num + 1, Append(html_pages, page_num),
                        Append(attempted, page_num))

\* MofcomCollector._collect_paginated_pages: [exc, html_pages, attempted];
\* attempted lists the pages it tried to load
MofcomCollector_collect_paginated_pages(site) ==
    LET first == MofcomCollector_load_page(site)
    IN IF first.exc
       THEN [exc |-> TRUE, html_pages |-> <<>>, attempted |-> <<1>>]
       ELSE IF site.total_pages <= 1
       THEN [exc |-> FALSE, html_pages |-> <<first.html>>, attempted |-> <<1>>]
       ELSE PaginationLoop(site, 2, <<first.html>>, <<1>>)

\* MofcomCollector._parse_news of a page's html
MofcomCollector_parse_news(html) == <<[link |-> ToString(html), title |-> "A"]>>

RECURSIVE ParseAll(_)
ParseAll(html_pages) ==
    IF html_pages = <<>> THEN <<>>
    ELSE MofcomCollector_parse_news(Head(html_pages)) \o ParseAll(Tail(html_pages))

\* _fetch_single from the pages on: parse, dedupe, enrich (no detail fetch
\* raising); an exception of the collection gives [] and one logged error
FetchSingleOfPages(pages) ==
    IF pages.exc
    THEN [exc |-> FALSE, val |-> <<>>, errors |-> 1]
    ELSE LET deduped == MofcomCollector_dedupe(ParseAll(pages.html_pages))
             enriched == MofcomCollector_enrich_with_content([kind |-> "ok"], deduped)
         IN [exc |-> enriched.exc, val |-> enriched.val, errors |-> 0]

InitPaginate ==
    /\ p_pc = "input"
    /\ p_site \in Sites
    /\ p_pages = NoPages /\ p_res = NoResult
    /\ DedupeIdle /\ FetchIdle /\ StoreIdle /\ ConcIdle /\ RunIdle /\ NewIdle

CollectPaginatedPages ==
    /\ p_pc = "input"
    /\ p_pages' = MofcomCollector_collect_paginated_pages(p_site)
    /\ p_pc' = "collected"
    /\ UNCHANGED <<p_site, p_res, dvars, fvars, svars, cvars, rvars, xvars>>

\* the rest of _fetch_single, and fetch_all's merge of this one result
FetchSinglePages ==
    /\ p_pc = "collected"
    /\ LET result == FetchSingleOfPages(p_pages)
           merged == MofcomMergeLoop(<<result>>, <<>>, 0)
       IN p_res' = [exc |-> FALSE, val |-> MofcomCollector_dedupe(merged.items),
                    errors |-> merged.errors]
    /\ p_pc' = "fetched"
    /\ UNCHANGED <<p_site, p_pages, dvars, fvars, svars, cvars, rvars, xvars>>

NextPaginate == CollectPaginatedPages \/ FetchSinglePages

SpecPaginate == InitPaginate /\ [][NextPaginate]_vars

\* the start page loads, and the transition to page k is the first to fail
StartPageLoads == ~MofcomCollector_load_page(p_site).exc

FirstFailedPage(k) ==
    /\ StartPageLoads
    /\ k \in 2..p_site.total_pages
    /\ p_site.adv[k] # "none"
    /\ \A j \in 2..(k - 1) : p_site.adv[j] = "none"

ItemsOfPages(n) == ParseAll([i \in 1..n |-> i])

RenderWaitTimesOut(k) ==
    /\ FirstFailedPage(k)
    /\ p_site.adv[k] \in {"page_number", "ready"}

\* C18 as stated: during page advancement a timeout of the page-number wait
\* or of the ready-selector wait falls back to a softer wait, and the page is
\* still collected.
C18_AsStated ==
    \A k \in 2..MaxPages + 1 :
        (RenderWaitTimesOut(k) /\ p_pc \in {"collected", "fetched"})
        => \E i \in 1..Len(p_pages.html_pages) : p_pages.html_pages[i] = k

\* C18, amended: during page advancement such a timeout does not fall back:
\* page k is not collected and no later page either, and the pages before k
\* are kept.
C18_AdvanceWaitsDoNotDegrade ==
    \A k \in 2..MaxPages + 1 :
        (RenderWaitTimesOut(k) /\ p_pc \in {"collected", "fetched"})
        => /\ \A i \in 1..Len(p_pages.html_pages) : p_pages.html_pages[i] < k
           /\ Len(p_pages.html_pages) = k - 1

C18_Witness ==
    /\ p_pc = "collected"
    /\ RenderWaitTimesOut(3)
    /\ p_site.adv[3] = "page_number"
    /\ p_pages.html_pages = <<1, 2>>

(***************************************************************************)
(* SpecRun: a collection run of MofcomCollector, task by task.  asyncio    *)
(* runs one task at a time and switches at awaits, so a step is the code   *)
(* of one task between two awaits.  fetch_all gathers one _fetch_single    *)
(* task per url; each of them, once its list pages are parsed and deduped, *)
(* gathers one _worker task per item in _enrich_with_content, behind a     *)
(* semaphore that this call creates.  What the list fetch of a url and the *)
(* detail fetch of an item do is chosen when they finish.                  *)
(*   "ok"            _fetch_detail returns the content and the date        *)
(*   "open_fails"    context.new_page() raises (before _fetch_detail's try)*)
(*   "goto_timeout"  page.goto raises (in the try)                         *)
(*   "read_fails"    page.content() or _extract_detail raises (in the try) *)
(***************************************************************************)
\* Bound: the largest detail_concurrency a collector is configured with
MaxConcurrency == 2

\* detail_concurrency as passed to the constructor
ConfiguredConcurrency == -1..MaxConcurrency

\* the configured value taken as it is
Max_NoClamp(a, b) == b

Max(a, b) == IF a >= b THEN a ELSE b

DetailOutcomes == {"ok", "open_fails", "goto_timeout", "read_fails"}

\* what the list fetch of a url does
ListOutcomes == {o \in Outcomes : o.kind # "enrich_raises"}

\* an item as _parse_news builds it: description and pub_date empty
ParsedItem(i) == [link |-> i.link, title |-> i.title, description |-> "", pub_date |-> ""]

\* MofcomCollector._fetch_detail: [exc, content, pub_date]
MofcomCollector_fetch_detail(outcome) ==
    IF outcome = "open_fails" THEN [exc |-> TRUE, content |-> "", pub_date |-> ""]
    ELSE IF outcome = "ok" THEN [exc |-> FALSE, content |-> "text", pub_date |-> "date"]
    ELSE [exc |-> FALSE, content |-> "", pub_date |-> ""]

\* a _worker that stores whatever the detail fetch gave
WorkerApply_Overwrite(item, d) ==
    [item EXCEPT !.description = d.content, !.pub_date = d.pub_date]

\* _worker after its detail fetch: the item with what was found
WorkerApply(item, d) ==
    [item EXCEPT !.description = IF Truthy(d.content) THEN d.content ELSE @,
                 !.pub_date = IF Truthy(d.pub_date) /\ ~Truthy(@) THEN d.pub_date ELSE @]

\* _fetch_single going on without awaiting its workers
GatherWorkersDone_NoAwait(workers) == TRUE

\* await asyncio.gather(*(_worker(item) for item in items)) is over
GatherWorkersDone(workers) ==
    \A i \in 1..Len(workers) : workers[i].st = "done"

\* the results taken in the order the tasks finished
GatherResults_AsCompleted(src, order) ==
    [i \in 1..Len(order) |-> [exc |-> src[order[i]].exc, val |-> src[order[i]].val,
                              errors |-> src[order[i]].errors]]

\* results = await asyncio.gather(*tasks, return_exceptions=True): one
\* result per task, in the order of the tasks
GatherResults(src, order) ==
    [i \in 1..Len(src) |-> [exc |-> src[i].exc, val |-> src[i].val,
                            errors |-> src[i].errors]]

InFlight(s) == {i \in 1..Len(r_work[s]) : r_work[s][i].st = "fetch"}

\* _fetch_single(context, url) up to the gather of its workers
FetchList(s) ==
    /\ r_pc = "gather"
    /\ r_src[s].pc = "start"
    /\ \E o \in ListOutcomes :
          LET parsed == [i \in 1..Len(o.items) |-> ParsedItem(o.items[i])]
              deduped == MofcomCollector_dedupe(parsed)
              ends == o.kind # "ok" \/ deduped = <<>>
          IN /\ r_src' = [r_src EXCEPT ![s] =
                            [pc |-> IF ends THEN "done" ELSE "enrich",
                             listing |-> deduped,
                             exc |-> (o.kind = "new_page_raises"),
                             val |-> <<>>,
                             errors |-> IF o.kind = "collect_raises" THEN 1 ELSE 0]]
             /\ r_work' = [r_work EXCEPT ![s] =
                             [i \in 1..Len(deduped) |->
                                 [st |-> "wait", item |-> deduped[i], out |-> ""]]]
             /\ r_order' = IF ends THEN Append(r_order, s) ELSE r_order
    /\ UNCHANGED <<r_pc, detail_concurrency, r_ret, dvars, fvars, svars, cvars, pvars, xvars>>

\* a semaphore that lets every worker in
SemaphoreLocked_Never(s) == FALSE

\* semaphore.locked(): the semaphore of the _enrich_with_content call of url
\* s, made with detail_concurrency slots, has none left
SemaphoreLocked(s) == Cardinality(InFlight(s)) >= detail_concurrency

\* _worker: async with semaphore, entered in the order the workers were made
AcquireSemaphore(s, i) ==
    /\ r_pc \in {"gather", "returned"}
    /\ r_work[s][i].st = "wait"
    /\ \A j \in 1..(i - 1) : r_work[s][j].st # "wait"
    /\ ~SemaphoreLocked(s)
    /\ r_work' = [r_work EXCEPT ![s][i].st = "fetch"]
    /\ UNCHANGED <<r_pc, detail_concurrency, r_src, r_order, r_ret,
                   dvars, fvars, svars, cvars, pvars, xvars>>

\* _worker: its _fetch_detail ends, the semaphore is released, the item is
\* updated; the gather of the workers ends when the last of them returns or
\* the first of them raises, and with it _fetch_single
FinishDetail(s, i) ==
    /\ r_pc \in {"gather", "returned"}
    /\ r_work[s][i].st = "fetch"
    /\ \E out \in DetailOutcomes :
          LET d == MofcomCollector_fetch_detail(out)
              w == r_work[s][i]
              workers == [r_work[s] EXCEPT ![i] =
                             [st |-> "done",
                              item |-> IF d.exc THEN w.item ELSE WorkerApply(w.item, d),
                              out |-> out]]
              raised == r_src[s].pc = "enrich" /\ d.exc
              returned == r_src[s].pc = "enrich" /\ ~d.exc /\ GatherWorkersDone(workers)
          IN /\ r_work' = [r_work EXCEPT ![s] = workers]
             /\ r_src' = [r_src EXCEPT ![s] =
                            IF raised THEN [@ EXCEPT !.pc = "done", !.exc = TRUE]
                            ELSE IF returned
                            THEN [@ EXCEPT !.pc = "done",
                                           !.val = [j \in 1..Len(workers) |-> workers[j].item]]
                            ELSE @]
             /\ r_order' = IF raised \/ returned THEN Append(r_order, s) ELSE r_order
    /\ UNCHANGED <<r_pc, detail_concurrency, r_ret, dvars, fvars, svars, cvars, pvars, xvars>>

\* fetch_all after its gather: merge in url order, dedupe, return
FetchAllReturns ==
    /\ r_pc = "gather"
    /\ \A s \in 1..Len(Urls) : r_src[s].pc = "done"
    /\ LET results == GatherResults(r_src, r_order)
           merged == MofcomMergeLoop(results, <<>>, 0)
       IN r_ret' = MofcomCollector_dedupe(merged.items)
    /\ r_pc' = "returned"
    /\ UNCHANGED <<detail_concurrency, r_src, r_work, r_order, dvars, fvars, svars, cvars, pvars, xvars>>

\* fetch_and_save: storage.save_news(news_items, filename=batch_key)
SaveCollected ==
    /\ r_pc = "returned"
    /\ n_saves = 0
    /\ Save("fetch_and_save", wall, r_ret, [src |-> "caller", id |-> 1], 0, FALSE)

RunFetchList == \E s \in 1..Len(Urls) : FetchList(s)
RunAcquireSemaphore == \E s \in 1..Len(Urls) : \E i \in 1..Len(r_work[s]) : AcquireSemaphore(s, i)
RunFinishDetail == \E s \in 1..Len(Urls) : \E i \in 1..Len(r_work[s]) : FinishDetail(s, i)

InitRun ==
    /\ r_pc = "gather"
    /\ detail_concurrency \in {Max(1, c) : c \in ConfiguredConcurrency}
    /\ r_src = [s \in 1..Len(Urls) |->
                  [pc |-> "start", listing |-> <<>>, exc |-> FALSE, val |-> <<>>, errors |-> 0]]
    /\ r_work = [s \in 1..Len(Urls) |-> <<>>]
    /\ r_order = <<>> /\ r_ret = <<>>
    /\ s_pc = "open" /\ StoreEmpty
    /\ DedupeIdle /\ FetchIdle /\ ConcIdle /\ PagesIdle /\ NewIdle

NextRun ==
    RunFetchList \/ RunAcquireSemaphore \/ RunFinishDetail \/ FetchAllReturns \/ SaveCollected

SpecRun == InitRun /\ [][NextRun]_vars

\* The event loop runs a task that is ready, and a detail fetch ends (by its
\* result, an error, or the timeout of page.goto): the run does not stop
\* while one of its tasks can take a step.
SpecRunFair == SpecRun /\ WF_vars(NextRun)

RECURSIVE TotalInFlight(_)
TotalInFlight(n) ==
    IF n = 0 THEN 0 ELSE Cardinality(InFlight(n)) + TotalInFlight(n - 1)

\* C14: at every instant of a collection run the number of detail-page
\* fetches in flight, over all sources, is at most detail_concurrency.
C14_DetailFetchesWithinLimit ==
    r_pc = "gather" => TotalInFlight(Len(Urls)) <= detail_concurrency

\* C24: within one _enrich_with_content call the number of detail fetches in
\* flight never exceeds detail_concurrency, which is at least 1 whatever
\* value the collector was configured with.
C24_DetailFetchesWithinCallLimit ==
    r_pc # "idle" =>
        /\ detail_concurrency >= 1
        /\ \A s \in 1..Len(Urls) : Cardinality(InFlight(s)) <= detail_concurrency

\* a worker waits while the one slot of its call is taken
C24_Witness ==
    /\ r_pc = "gather"
    /\ detail_concurrency = 1
    /\ \E s \in 1..Len(Urls) :
          /\ Len(r_work[s]) = 2
          /\ r_work[s][1].st = "fetch" /\ r_work[s][2].st = "wait"

\* C26: when every detail fetch ends, the enrichment of a source's items ends
\* and every worker of it finishes, whatever detail_concurrency the collector
\* was configured with (0 and negative values included): a slot is released
\* also when the detail fetch fails, so no worker stays at the gate.
C26_EnrichmentTerminates ==
    \A s \in 1..Len(Urls) :
        (r_src[s].pc = "enrich") ~> (r_src[s].pc = "done" /\ GatherWorkersDone(r_work[s]))

\* with one slot, the second worker got it after the first one's detail
\* fetch had failed
C26_Witness ==
    /\ detail_concurrency = 1
    /\ \E s \in 1..Len(Urls) :
          /\ r_src[s].pc = "done"
          /\ Len(r_work[s]) = 2
          /\ r_work[s][1].st = "done" /\ r_work[s][1].out \in {"goto_timeout", "read_fails"}
          /\ r_work[s][2].st = "done" /\ r_work[s][2].out = "ok"

ReturnedLinks == {r_ret[j].link : j \in 1..Len(r_ret)}

\* C15: when one detail fetch fails (opening the page, navigation timeout,
\* reading or parsing), its item is still returned, with description and
\* pub_date empty, and so is every other item of the same source.
C15_DetailFailureKeepsItems ==
    r_pc = "returned" =>
        \A s \in 1..Len(Urls) : \A i \in 1..Len(r_work[s]) :
            r_work[s][i].out \in {"open_fails", "goto_timeout", "read_fails"} =>
                /\ \A k \in 1..Len(r_src[s].listing) :
                      r_src[s].listing[k].link \in ReturnedLinks
                /\ (\A t \in 1..(s - 1) : \A k \in 1..Len(r_src[t].listing) :
                        r_src[t].listing[k].link # r_work[s][i].item.link)
                   => \E j \in 1..Len(r_ret) :
                         /\ r_ret[j].link = r_work[s][i].item.link
                         /\ r_ret[j].title = r_work[s][i].item.title
                         /\ r_ret[j].description = "" /\ r_ret[j].pub_date = ""

\* the items of url s as its detail fetches left them, in listing order
EnrichedListing(s) ==
    IF r_src[s].exc THEN <<>>
    ELSE [i \in 1..Len(r_src[s].listing) |->
             WorkerApply(r_src[s].listing[i], MofcomCollector_fetch_detail(r_work[s][i].out))]

RECURSIVE ListingsInUrlOrder(_)
ListingsInUrlOrder(n) ==
    IF n = 0 THEN <<>> ELSE ListingsInUrlOrder(n - 1) \o EnrichedListing(n)

\* C19: whatever the order in which the source tasks and the detail fetches
\* finish, fetch_all returns the items of the first url in listing order, then
\* those of the second, and so on, without the later occurrences of a link.
C19_ResultOrderIsUrlOrder ==
    r_pc = "returned" =>
        /\ NoSharedLink(r_ret)
        /\ IsFirstOccurrences(ListingsInUrlOrder(Len(Urls)), r_ret)

\* the second url finished first, and both list the same link
C19_Witness ==
    /\ r_pc = "returned"
    /\ r_order = <<2, 1>>
    /\ Len(r_src[1].listing) = 2 /\ Len(r_src[2].listing) = 2
    /\ ~r_src[1].exc /\ ~r_src[2].exc
    /\ r_src[1].listing[1].link = r_src[2].listing[2].link
    /\ r_src[1].listing[1].title # r_src[2].listing[2].title
    /\ r_work[2][1].out = "ok" /\ r_work[1][1].out = "goto_timeout"
    /\ Len(r_ret) = 2

SourceUrls == {"", "http://a.org/rss", "http://b.org/rss"}
SourceNames == {"", "A"}
SourceCategories == {"uncategorized", "tech"}

\* url.split("//")[-1].split("/")[0]
HostOf(url) ==
    IF url = "http://a.org/rss" THEN "a.org"
    ELSE IF url = "http://b.org/rss" THEN "b.org"
    ELSE url

\* for source in self.sources: if source['url'] == url
Registered(registry, url) == \E i \in 1..Len(registry) : registry[i].url = url

\* add_source appending without looking for the url in the registry
RSSCollector_add_source_NoCheck(registry, url, name, category) ==
    IF ~Truthy(url) THEN [raised |-> "ValueError", sources |-> registry]
    ELSE [raised |-> "",
          sources |-> Append(registry,
                             [url |-> url,
                              name |-> IF Truthy(name) THEN name ELSE HostOf(url),
                              category |-> category])]

\* RSSCollector.add_source: how the call ends and self.sources after it
RSSCollector_add_source(registry, url, name, category) ==
    IF ~Truthy(url) THEN [raised |-> "ValueError", sources |-> registry]
    ELSE IF Registered(registry, url) THEN [raised |-> "", sources |-> registry]
    ELSE [raised |-> "",
          sources |-> Append(registry,
                             [url |-> url,
                              name |-> IF Truthy(name) THEN name ELSE HostOf(url),
                              category |-> category])]

\* Bound: the length of the list that get_default_sources returns
MaxDefaults == 2

DefaultSource == [url : SourceUrls, name : SourceNames \ {""}, category : SourceCategories]

\* the loop of initialize_sources from its i-th source on: count is raised
\* after every add_source call that did not raise
RECURSIVE InitializeSourcesLoop(_, _, _, _)
InitializeSourcesLoop(defaults, i, registry, count) ==
    IF i > Len(defaults) THEN [sources |-> registry, count |-> count]
    ELSE LET r == RSSCollector_add_source(registry, defaults[i].url, defaults[i].name,
                                          defaults[i].category)
         IN IF r.raised # ""
            THEN InitializeSourcesLoop(defaults, i + 1, registry, count)
            ELSE InitializeSourcesLoop(defaults, i + 1, r.sources, count + 1)

\* initialize_sources(rss_collector)
initialize_sources(registry, defaults) == InitializeSourcesLoop(defaults, 1, registry, 0)

AddSource ==
    /\ g_pc = "open"
    /\ \E url \in SourceUrls, name \in SourceNames, category \in SourceCategories :
          LET r == RSSCollector_add_source(self_sources, url, name, category)
          IN /\ self_sources' = r.sources
             /\ g_last' = [op |-> "add_source", args |-> <<url, name, category>>,
                           raised |-> r.raised, ret |-> 0]
    /\ g_before' = self_sources
    /\ UNCHANGED <<g_pc, notg>>

InitializeSources ==
    /\ g_pc = "open"
    /\ \E defaults \in SeqsUpTo(DefaultSource, MaxDefaults) :
          LET r == initialize_sources(self_sources, defaults)
          IN /\ self_sources' = r.sources
             /\ g_last' = [op |-> "initialize_sources", args |-> defaults,
                           raised |-> "", ret |-> r.count]
    /\ g_before' = self_sources
    /\ UNCHANGED <<g_pc, notg>>

OldIdle == DedupeIdle /\ FetchIdle /\ StoreIdle /\ OthersIdle

InitRegistry ==
    /\ g_pc = "open" /\ self_sources = <<>> /\ g_before = <<>> /\ g_last = NoRegistryCall
    /\ OldIdle /\ ParseIdle /\ EnrichIdle /\ BrowserIdle /\ StreamIdle

NextRegistry == AddSource \/ InitializeSources

SpecRegistry == InitRegistry /\ [][NextRegistry]_vars

\* C21: no two entries of the registry have the same url; an add_source call
\* with a url that is already registered leaves the registry as it was, every
\* entry with its fields and at its position, and a call with an empty url
\* raises ValueError and leaves the registry as it was.
C21_RegistryUniqueness ==
    /\ \A i, j \in 1..Len(self_sources) : i # j => self_sources[i].url # self_sources[j].url
    /\ g_last.op = "add_source" =>
          /\ g_last.args[1] = "" => (g_last.raised = "ValueError" /\ self_sources = g_before)
          /\ Registered(g_before, g_last.args[1]) =>
                (g_last.raised = "" /\ self_sources = g_before)

\* the first of two registered urls is added again, under another name and
\* another category
C21_Witness ==
    /\ g_last.op = "add_source"
    /\ Len(g_before) = 2
    /\ g_last.args[1] = g_before[1].url
    /\ g_last.args[2] # "" /\ g_last.args[2] # g_before[1].name
    /\ g_last.args[3] # g_before[1].category

\* C22: called on a collector with an empty registry, initialize_sources
\* returns the number of entries that are in the registry afterwards, also
\* when the default list has the same url more than once.
C22_CountIsNumberAdded ==
    (g_last.op = "initialize_sources" /\ g_before = <<>>) => g_last.ret = Len(self_sources)


(***************************************************************************)
(* SpecParse: what the collectors make of the raw records of one source:   *)
(* the entries of a feed (RSSCollector._fetch_rss), the documents of the   *)
(* World Bank API (OrgCollector._fetch_world_bank), the selected anchors   *)
(* of an HTML list page (OrgCollector._fetch_html_links) and the anchors   *)
(* of a rendered list page (MofcomCollector._parse_news).  A key that is   *)
(* missing and a value that is empty are both the empty string.  An item   *)
(* keeps title and link.                                                   *)
(***************************************************************************)
\* Bound: the number of raw records of one source
MaxRaw == 2

\* what _parse_entry returns for a record it rejects
None == [title |-> "", link |-> ""]

\* -- RSSCollector --
RssEntries == [title : {"", "T"}, link : {"", "L1", "L2"}]

RSSCollector_parse_entry(entry) ==
    IF ~Truthy(entry.title) \/ ~Truthy(entry.link) THEN None
    ELSE [title |-> entry.title, link |-> entry.link]

\* for entry in parsed.entries: ... if news_item: items.append(news_item)
RECURSIVE RssEntriesLoop(_, _, _)
RssEntriesLoop(entries, i, items) ==
    IF i > Len(entries) THEN items
    ELSE LET news_item == RSSCollector_parse_entry(entries[i])
         IN RssEntriesLoop(entries, i + 1,
                           IF news_item # None THEN Append(items, news_item) ELSE items)

RSSCollector_fetch_rss(entries) ==
    [exc |-> FALSE, val |-> RssEntriesLoop(entries, 1, <<>>), errors |-> 0]

\* -- OrgCollector: World Bank documents --
\* an element of a title that is a list: a string or something else
TitleElems == {[is_str |-> TRUE, s |-> "T"], [is_str |-> TRUE, s |-> "U"],
               [is_str |-> FALSE, s |-> ""]}

\* entry.get("title"): nothing, a string, a list, a dict
WbTitles ==
    {[kind |-> "str", s |-> x, elems |-> <<>>, value |-> "", zero |-> ""] : x \in {"", "T"}}
    \cup {[kind |-> "list", s |-> "", elems |-> l, value |-> "", zero |-> ""] :
            l \in {<<TitleElems_e>> : TitleElems_e \in TitleElems}
                  \cup {<<[is_str |-> TRUE, s |-> "T"], [is_str |-> TRUE, s |-> "U"]>>,
                        <<[is_str |-> FALSE, s |-> ""], [is_str |-> FALSE, s |-> ""]>>}}
    \cup {[kind |-> "dict", s |-> "", elems |-> <<>>, value |-> v[1], zero |-> v[2]] :
            v \in {<<"T", "">>, <<"", "U">>, <<"", "">>}}

WbEntries == [title : WbTitles, url : {"", "L1"}, link : {"", "L2"}]

\* " ".join(t for t in raw_title if isinstance(t, str))
RECURSIVE JoinStrs(_, _)
JoinStrs(elems, i) ==
    IF i > Len(elems) THEN ""
    ELSE LET rest == JoinStrs(elems, i + 1)
         IN IF ~elems[i].is_str THEN rest
            ELSE IF \E j \in (i + 1)..Len(elems) : elems[j].is_str
                 THEN elems[i].s \o " " \o rest
                 ELSE elems[i].s

\* the title of a document, lines 86-92
WbTitle(entry) ==
    LET raw_title == entry.title
    IN IF raw_title.kind = "list" THEN JoinStrs(raw_title.elems, 1)
       ELSE IF raw_title.kind = "dict"
            THEN (IF Truthy(raw_title.value) THEN raw_title.value ELSE raw_title.zero)
            ELSE raw_title.s

\* entry.get("url") or entry.get("link") or ""
WbLink(entry) == IF Truthy(entry.url) THEN entry.url ELSE entry.link

RECURSIVE WorldBankLoop(_, _, _)
WorldBankLoop(iterable, i, items) ==
    IF i > Len(iterable) THEN items
    ELSE LET title == WbTitle(iterable[i])
             link == WbLink(iterable[i])
         IN IF ~Truthy(title) \/ ~Truthy(link)
            THEN WorldBankLoop(iterable, i + 1, items)
            ELSE WorldBankLoop(iterable, i + 1, Append(items, [title |-> title, link |-> link]))

OrgCollector_fetch_world_bank(iterable) ==
    [exc |-> FALSE, val |-> WorldBankLoop(iterable, 1, <<>>), errors |-> 0]

\* -- OrgCollector: the anchors of an HTML list page --
Hrefs == {"", "/news/1", "http://org/news/1", "/news/2", "/about"}
Anchors == [href : Hrefs, text : {"", "T", "U"}]
LinkFilters == {"", "/news/"}

\* link_filter in href
InHref(link_filter, href) ==
    IF link_filter = "" THEN TRUE
    ELSE href \in {"/news/1", "http://org/news/1", "/news/2"}

\* urljoin(source.get("base_url") or source["url"], href), the base being a
\* page of http://org
urljoin(href) == IF href = "http://org/news/1" THEN href ELSE "http://org" \o href

\* the loop of lines 173-195, from the i-th selected anchor on
RECURSIVE HtmlLinksLoop(_, _, _, _, _)
HtmlLinksLoop(links, link_filter, i, seen, items) ==
    IF i > Len(links) THEN items
    ELSE LET a == links[i]
             full_link == urljoin(a.href)
         IN IF ~Truthy(a.href) THEN HtmlLinksLoop(links, link_filter, i + 1, seen, items)
            ELSE IF Truthy(link_filter) /\ ~InHref(link_filter, a.href)
            THEN HtmlLinksLoop(links, link_filter, i + 1, seen, items)
            ELSE IF full_link \in seen
            THEN HtmlLinksLoop(links, link_filter, i + 1, seen, items)
            ELSE IF ~Truthy(a.text)
            THEN HtmlLinksLoop(links, link_filter, i + 1, seen \cup {full_link}, items)
            ELSE HtmlLinksLoop(links, link_filter, i + 1, seen \cup {full_link},
                               Append(items, [title |-> a.text, link |-> full_link]))

OrgCollector_fetch_html_links(links, link_filter) ==
    [exc |-> FALSE, val |-> HtmlLinksLoop(links, link_filter, 1, {}, <<>>), errors |-> 0]

\* -- MofcomCollector: the anchors of a rendered list page --
MofcomAnchors == [title : {"", "A"}, text : {"", "T"}, href : {"", "/art/1", "http://m/art/2"}]

\* anchor.get("title") or anchor.get_text(strip=True)
MofcomTitle(anchor) == IF Truthy(anchor.title) THEN anchor.title ELSE anchor.text

\* anchor.get("href") or "", behind MOFCOM_BASE_URL when it starts with "/"
MofcomLink(anchor) ==
    IF anchor.href = "/art/1" THEN "http://m" \o anchor.href ELSE anchor.href

RECURSIVE ParseNewsLoop(_, _, _)
ParseNewsLoop(links, i, parsed) ==
    IF i > Len(links) THEN parsed
    ELSE LET title == MofcomTitle(links[i])
             link == MofcomLink(links[i])
         IN IF ~Truthy(title) \/ ~Truthy(link)
            THEN ParseNewsLoop(links, i + 1, parsed)
            ELSE ParseNewsLoop(links, i + 1, Append(parsed, [title |-> title, link |-> link]))

MofcomParseNews(links) ==
    [exc |-> FALSE, val |-> ParseNewsLoop(links, 1, <<>>), errors |-> 0]

Parsed(by, link_filter, records, out) ==
    /\ h_pc = "input"
    /\ h_raw' = [by |-> by, link_filter |-> link_filter, records |-> records]
    /\ h_out' = out
    /\ h_pc' = "parsed"
    /\ UNCHANGED noth

FetchRss ==
    \E entries \in SeqsUpTo(RssEntries, MaxRaw) :
        Parsed("rss", "", entries, RSSCollector_fetch_rss(entries))

FetchWorldBank ==
    \E iterable \in SeqsUpTo(WbEntries, MaxRaw) :
        Parsed("world_bank", "", iterable, OrgCollector_fetch_world_bank(iterable))

FetchHtmlLinks ==
    \E links \in SeqsUpTo(Anchors, MaxRaw), link_filter \in LinkFilters :
        Parsed("html", link_filter, links, OrgCollector_fetch_html_links(links, link_filter))

ParseNews ==
    \E links \in SeqsUpTo(MofcomAnchors, MaxRaw) :
        Parsed("mofcom", "", links, MofcomParseNews(links))

InitParse ==
    /\ h_pc = "input" /\ h_raw = NoRaw /\ h_out = NoResult
    /\ OldIdle /\ RegistryIdle /\ EnrichIdle /\ BrowserIdle /\ StreamIdle

NextParse == FetchRss \/ FetchWorldBank \/ FetchHtmlLinks \/ ParseNews

SpecParse == InitParse /\ [][NextParse]_vars

\* the title and the link that the parser in use reads from a raw record
RawTitle(r) ==
    IF h_raw.by = "rss" THEN r.title
    ELSE IF h_raw.by = "world_bank" THEN WbTitle(r)
    ELSE IF h_raw.by = "html" THEN r.text
    ELSE MofcomTitle(r)

RawLink(r) ==
    IF h_raw.by = "rss" THEN r.link
    ELSE IF h_raw.by = "world_bank" THEN WbLink(r)
    ELSE IF h_raw.by = "html"
         THEN (IF Truthy(r.href) /\ InHref(h_raw.link_filter, r.href) THEN urljoin(r.href) ELSE "")
    ELSE MofcomLink(r)

Complete(r) == RawTitle(r) # "" /\ RawLink(r) # ""

\* C23: every item that a collector's fetch returns has a non-empty title and
\* a non-empty link; a raw record that lacks either is dropped without an
\* error and without keeping another record of the source from being
\* returned: the link of every record that has both is the link of an item.
C23_IncompleteRecordsDropped ==
    h_pc = "parsed" =>
        /\ ~h_out.exc
        /\ \A j \in 1..Len(h_out.val) : h_out.val[j].title # "" /\ h_out.val[j].link # ""
        /\ \A i \in 1..Len(h_raw.records) :
              Complete(h_raw.records[i])
              => \E j \in 1..Len(h_out.val) : h_out.val[j].link = RawLink(h_raw.records[i])

\* C25: one HTML list fetch returns exactly one item for every distinct
\* resolved link that passes the link filter and has a selected anchor with
\* non-empty visible text, and no item built from an anchor with empty text.
C25_OneItemPerTitledLink ==
    (h_pc = "parsed" /\ h_raw.by = "html") =>
        LET titled == {RawLink(h_raw.records[i]) :
                          i \in {k \in 1..Len(h_raw.records) : Complete(h_raw.records[k])}}
        IN /\ \A l \in titled :
                 Cardinality({j \in 1..Len(h_out.val) : h_out.val[j].link = l}) = 1
           /\ \A j \in 1..Len(h_out.val) :
                 \E i \in 1..Len(h_raw.records) :
                    /\ Complete(h_raw.records[i])
                    /\ RawLink(h_raw.records[i]) = h_out.val[j].link
                    /\ h_raw.records[i].text = h_out.val[j].title


(***************************************************************************)
(* SpecEnrich: one _enrich_with_content call of MofcomCollector on any     *)
(* list of items, with or without a description and a pub_date of their    *)
(* own.  The workers update the dicts of the list in place; e_items keeps  *)
(* the items as they were.  A detail fetch gives content and pub_date,     *)
(* each empty or not, or raises (context.new_page(), before its try).      *)
(***************************************************************************)
\* Bound: the number of items handed to one call
MaxEnrich == 2

EnrichItems ==
    [title : {"A"}, link : {"1", "2"}, description : {"", "old"},
     pub_date : {"", "2024-01-01"}, source_name : {"MOFCOM"}, source_url : {"list"},
     category : {"policy"}, collected_at : {"t0"}]

NoDetail == [exc |-> FALSE, content |-> "", pub_date |-> ""]

\* what _fetch_detail gives: it raises, or returns the pair of _extract_detail,
\* or "", "" after an exception in its try
DetailResults ==
    {[exc |-> TRUE, content |-> "", pub_date |-> ""]}
    \cup [exc : {FALSE}, content : {"", "text"}, pub_date : {"", "date"}]

\* _enrich_with_content up to its gather
EnrichWithContent ==
    /\ e_pc = "input"
    /\ IF e_items = <<>>
       THEN e_pc' = "returned" /\ e_ret' = <<>> /\ e_work' = <<>>
       ELSE /\ e_pc' = "gather"
            /\ e_work' = [i \in 1..Len(e_items) |->
                             [st |-> "wait", item |-> e_items[i], d |-> NoDetail]]
            /\ e_ret' = e_ret
    /\ UNCHANGED <<e_conc, e_items, note>>

\* _worker: async with semaphore
WorkerEnters(i) ==
    /\ e_pc \in {"gather", "raised"}
    /\ e_work[i].st = "wait"
    /\ \A j \in 1..(i - 1) : e_work[j].st # "wait"
    /\ Cardinality({j \in 1..Len(e_work) : e_work[j].st = "fetch"}) < e_conc
    /\ e_work' = [e_work EXCEPT ![i].st = "fetch"]
    /\ UNCHANGED <<e_pc, e_conc, e_items, e_ret, note>>

\* _worker from the end of its detail fetch on; the gather returns the items
\* in the order of the list when the last worker returns, and raises when
\* the first worker raises
WorkerReturns(i) ==
    /\ e_pc \in {"gather", "raised"}
    /\ e_work[i].st = "fetch"
    /\ \E d \in DetailResults :
          LET w == e_work[i]
              workers == [e_work EXCEPT ![i] =
                             [st |-> "done",
                              item |-> IF d.exc THEN w.item ELSE WorkerApply(w.item, d),
                              d |-> d]]
          IN /\ e_work' = workers
             /\ e_pc' = IF e_pc = "raised" \/ d.exc THEN "raised"
                        ELSE IF GatherWorkersDone(workers) THEN "returned" ELSE e_pc
             /\ e_ret' = IF e_pc = "gather" /\ ~d.exc /\ GatherWorkersDone(workers)
                         THEN [j \in 1..Len(workers) |-> workers[j].item]
                         ELSE e_ret
    /\ UNCHANGED <<e_conc, e_items, note>>

RunWorkerEnters == \E i \in 1..Len(e_work) : WorkerEnters(i)
RunWorkerReturns == \E i \in 1..Len(e_work) : WorkerReturns(i)

InitEnrich ==
    /\ e_pc = "input"
    /\ e_conc \in {Max(1, c) : c \in ConfiguredConcurrency}
    /\ e_items \in SeqsUpTo(EnrichItems, MaxEnrich)
    /\ e_work = <<>> /\ e_ret = <<>>
    /\ OldIdle /\ RegistryIdle /\ ParseIdle /\ BrowserIdle /\ StreamIdle

NextEnrich == EnrichWithContent \/ RunWorkerEnters \/ RunWorkerReturns

SpecEnrich == InitEnrich /\ [][NextEnrich]_vars

\* C27: enrichment changes only description and pub_date of an item; the
\* number and the order of the items stay; description is replaced only by
\* non-empty extracted content, and a pub_date that was not empty is kept.
C27_EnrichmentFrame ==
    /\ \A i \in 1..Len(e_work) :
          LET old == e_items[i]
              new == e_work[i].item
          IN /\ new.title = old.title /\ new.link = old.link
             /\ new.source_name = old.source_name /\ new.source_url = old.source_url
             /\ new.category = old.category /\ new.collected_at = old.collected_at
             /\ new.description # old.description
                => (new.description # "" /\ new.description = e_work[i].d.content)
             /\ new.pub_date # old.pub_date
                => (old.pub_date = "" /\ new.pub_date = e_work[i].d.pub_date)
    /\ e_pc = "returned" =>
          /\ Len(e_ret) = Len(e_items)
          /\ \A i \in 1..Len(e_ret) : e_ret[i] = e_work[i].item

\* the detail page of the first item gave a date and no content, that of the
\* second gave both; the first item had a description and a pub_date
C27_Witness ==
    /\ e_pc = "returned"
    /\ Len(e_ret) = 2
    /\ e_items[1].description = "old" /\ e_items[1].pub_date = "2024-01-01"
    /\ e_work[1].d = [exc |-> FALSE, content |-> "", pub_date |-> "date"]
    /\ e_work[2].d = [exc |-> FALSE, content |-> "text", pub_date |-> "date"]
    /\ e_items[2].description = "old" /\ e_items[2].pub_date = ""
    /\ e_ret[2].description = "text" /\ e_ret[2].pub_date = "date"


(***************************************************************************)
(* SpecRoundTrip: on a store with nothing in it, one save_news call of any *)
(* list under any key, then one load_news call; the save stays on record   *)
(* in prev.                                                                *)
(***************************************************************************)
\* Bound: the items of the save_news call
MaxTripLen == 3

\* storage.save_news(news_items, filename) on the empty store
SaveOnEmptyStore ==
    /\ n_saves = 0
    /\ \E items \in SeqsUpTo(StoreItems, MaxTripLen), filename \in {NoKey} \cup CallerKeys :
          \E clock \in Clocks(items, filename), fault \in SaveFaults(items, filename) :
             Save("save", clock, items, filename, fault, TRUE)

\* storage.load_news(filename) after it
LoadAfterSave ==
    /\ s_pc = "open"
    /\ last.op = "save"
    /\ \E filename \in LoadKeys, fault \in BOOLEAN :
          LET r == NewsStorage_load_news(Db, filename, fault)
          IN last' = [op |-> "load", key |-> filename, items |-> <<>>, at |-> wall,
                      failed |-> r.failed, ret_key |-> NoKey, ret_list |-> r.ret,
                      pre_links |-> {}]
    /\ prev' = last
    /\ s_pc' = "queried"
    /\ UNCHANGED <<news_batches, news_items, id_seq, db_now, wall, n_saves,
                   ins_log, batch_log, dvars, fvars, ovars, xvars>>

NextRoundTrip == SaveOnEmptyStore \/ LoadAfterSave

SpecRoundTrip == InitStore /\ [][NextRoundTrip]_vars

\* the items of xs from the i-th on that have a link which no earlier item
\* of xs has
RECURSIVE FirstOfEachLink(_, _)
FirstOfEachLink(xs, i) ==
    IF i > Len(xs) THEN <<>>
    ELSE IF xs[i].link # "" /\ \A j \in 1..(i - 1) : xs[j].link # xs[i].link
         THEN <<xs[i]>> \o FirstOfEachLink(xs, i + 1)
         ELSE FirstOfEachLink(xs, i + 1)

\* C28: on an empty store, save(xs, k) of a non-empty list and then load(k)
\* give exactly the first occurrence of each non-empty link of xs, in the
\* order of xs, each record equal to the item handed to save; the items
\* without a link are not stored.
C28_SaveLoadRoundTrip ==
    (/\ last.op = "load" /\ prev.op = "save"
     /\ prev.items # <<>>
     /\ last.key = prev.key
     /\ ~prev.failed /\ ~last.failed)
    => /\ last.ret_list = FirstOfEachLink(prev.items, 1)
       /\ {r.link : r \in news_items} = {prev.items[i].link : i \in 1..Len(prev.items)} \ {""}

\* saved without a key: an item without a link, then two records of one link
C28_Witness ==
    /\ last.op = "load" /\ prev.op = "save"
    /\ prev.key = NoKey /\ last.key = NoKey
    /\ ~prev.failed /\ ~last.failed
    /\ Len(prev.items) = 3
    /\ prev.items[1].link = ""
    /\ prev.items[2].link = prev.items[3].link
    /\ prev.items[2].title # prev.items[3].title
    /\ last.ret_list = <<prev.items[2]>>


(***************************************************************************)
(* SpecBrowser: the browser pages of one fetch_all run of MofcomCollector. *)
(* A page is "none" (not opened), "open" or "closed".  _fetch_single opens *)
(* the list page of its url, collects with it and closes it, then gathers  *)
(* one _worker per item; a _worker, once through the semaphore, opens the  *)
(* detail page, fetches and closes it.  A gather that raises leaves its    *)
(* other workers running.  fetch_all closes the browser, and with it every *)
(* page still open, when all _fetch_single tasks are over.  What is on the *)
(* pages is left out.                                                      *)
(***************************************************************************)
\* Bound: the items listed by one url
MaxListed == 2

\* fetch_all going on without browser.close()
BrowserClose_Skip(src, work) == [src |-> src, work |-> work]

\* await browser.close(): every page of the browser that is open is closed
BrowserClose(src, work) ==
    [src |-> [s \in 1..Len(src) |->
                [src[s] EXCEPT !.page = IF @ = "open" THEN "closed" ELSE @]],
     work |-> [s \in 1..Len(work) |->
                 [i \in 1..Len(work[s]) |->
                     [work[s][i] EXCEPT !.page = IF @ = "open" THEN "closed" ELSE @]]]]

BrowserOpen == b_pc = "gather"

\* _fetch_single: page = await context.new_page(), which may raise
OpenListPage(s) ==
    /\ BrowserOpen
    /\ b_src[s].pc = "start"
    /\ \E raises \in BOOLEAN :
          b_src' = [b_src EXCEPT ![s] =
                      IF raises THEN [pc |-> "done", page |-> "none"]
                      ELSE [pc |-> "list", page |-> "open"]]
    /\ UNCHANGED <<b_pc, b_conc, b_work, notb>>

\* _fetch_single from the collection of the list pages to the gather of the
\* workers: the collection ends or raises, the finally closes the page, and
\* the n items parsed from it are handed to _enrich_with_content
CollectAndClose(s) ==
    /\ BrowserOpen
    /\ b_src[s].pc = "list"
    /\ \E raises \in BOOLEAN, n \in 0..MaxListed :
          LET listed == IF raises THEN 0 ELSE n
          IN /\ b_src' = [b_src EXCEPT ![s] =
                            [pc |-> IF listed = 0 THEN "done" ELSE "enrich",
                             page |-> "closed"]]
             /\ b_work' = [b_work EXCEPT ![s] =
                             [i \in 1..listed |-> [st |-> "wait", page |-> "none"]]]
    /\ UNCHANGED <<b_pc, b_conc, notb>>

\* _worker: async with semaphore
EnterSemaphore(s, i) ==
    /\ b_work[s][i].st = "wait"
    /\ \A j \in 1..(i - 1) : b_work[s][j].st # "wait"
    /\ Cardinality({j \in 1..Len(b_work[s]) : b_work[s][j].st \in {"opening", "fetch"}}) < b_conc
    /\ b_work' = [b_work EXCEPT ![s][i].st = "opening"]
    /\ UNCHANGED <<b_pc, b_conc, b_src, notb>>

\* _fetch_detail: page = await context.new_page(); it raises when the
\* browser is closed, and may raise before; the exception leaves the worker
\* and ends the gather of its source
OpenDetailPage(s, i) ==
    /\ b_work[s][i].st = "opening"
    /\ \E raises \in {TRUE} \cup {~BrowserOpen} :
          IF raises
          THEN /\ b_work' = [b_work EXCEPT ![s][i].st = "done"]
               /\ b_src' = [b_src EXCEPT ![s].pc = "done"]
          ELSE /\ b_work' = [b_work EXCEPT ![s][i] = [st |-> "fetch", page |-> "open"]]
               /\ b_src' = b_src
    /\ UNCHANGED <<b_pc, b_conc, notb>>

\* _fetch_detail from page.goto on: the try ends or raises, the finally
\* closes the page; the worker returns, and the gather with the last one
FetchAndClose(s, i) ==
    /\ b_work[s][i].st = "fetch"
    /\ LET workers == [b_work[s] EXCEPT ![i] = [st |-> "done", page |-> "closed"]]
       IN /\ b_work' = [b_work EXCEPT ![s] = workers]
          /\ b_src' = IF \A j \in 1..Len(workers) : workers[j].st = "done"
                      THEN [b_src EXCEPT ![s].pc = "done"]
                      ELSE b_src
    /\ UNCHANGED <<b_pc, b_conc, notb>>

\* fetch_all: the gather of the _fetch_single tasks is over; browser.close()
CloseBrowser ==
    /\ b_pc = "gather"
    /\ \A s \in 1..Len(Urls) : b_src[s].pc = "done"
    /\ LET closed == BrowserClose(b_src, b_work)
       IN b_src' = closed.src /\ b_work' = closed.work
    /\ b_pc' = "closed"
    /\ UNCHANGED <<b_conc, notb>>

\* fetch_all: merge, dedupe, return
BrowserFetchAllReturns ==
    /\ b_pc = "closed"
    /\ b_pc' = "returned"
    /\ UNCHANGED <<b_conc, b_src, b_work, notb>>

RunOpenListPage == \E s \in 1..Len(Urls) : OpenListPage(s)
RunCollectAndClose == \E s \in 1..Len(Urls) : CollectAndClose(s)
RunEnterSemaphore == \E s \in 1..Len(Urls) : \E i \in 1..Len(b_work[s]) : EnterSemaphore(s, i)
RunOpenDetailPage == \E s \in 1..Len(Urls) : \E i \in 1..Len(b_work[s]) : OpenDetailPage(s, i)
RunFetchAndClose == \E s \in 1..Len(Urls) : \E i \in 1..Len(b_work[s]) : FetchAndClose(s, i)

InitBrowser ==
    /\ b_pc = "gather"
    /\ b_conc \in {Max(1, c) : c \in ConfiguredConcurrency}
    /\ b_src = [s \in 1..Len(Urls) |-> [pc |-> "start", page |-> "none"]]
    /\ b_work = [s \in 1..Len(Urls) |-> <<>>]
    /\ OldIdle /\ RegistryIdle /\ ParseIdle /\ EnrichIdle /\ StreamIdle

NextBrowser ==
    \/ RunOpenListPage \/ RunCollectAndClose \/ RunEnterSemaphore \/ RunOpenDetailPage
    \/ RunFetchAndClose \/ CloseBrowser \/ BrowserFetchAllReturns

SpecBrowser == InitBrowser /\ [][NextBrowser]_vars

\* The event loop runs a task that is ready, and the awaits on the browser
\* end (in time, or by their timeout).
SpecBrowserFair == SpecBrowser /\ WF_vars(NextBrowser)

NoPageOpen ==
    \A s \in 1..Len(Urls) :
        /\ b_src[s].page # "open"
        /\ \A i \in 1..Len(b_work[s]) : b_work[s][i].page # "open"

\* C29: every page opened in a collection run, the list page of a source or
\* the detail page of an item, is closed in the end, whether its work
\* succeeds or fails; the list page of a source is closed before a detail
\* page of that source is opened; and no page is open when fetch_all returns.
C29_PagesAreClosed ==
    /\ \A s \in 1..Len(Urls) :
          /\ (b_src[s].page = "open") ~> (b_src[s].page = "closed")
          /\ \A i \in 1..MaxListed :
                (Len(b_work[s]) >= i /\ b_work[s][i].page = "open")
                ~> (Len(b_work[s]) >= i /\ b_work[s][i].page = "closed")
    /\ [](\A s \in 1..Len(Urls) : \A i \in 1..Len(b_work[s]) :
             b_work[s][i].page # "none" => b_src[s].page = "closed")
    /\ [](b_pc = "returned" => NoPageOpen)

\* fetch_all has returned; a worker left behind by a gather that raised is
\* still in its detail fetch, and its page was closed with the browser
C29_Witness ==
    /\ b_pc = "returned"
    /\ \E s \in 1..Len(Urls) : \E i \in 1..Len(b_work[s]) :
          b_work[s][i].st = "fetch" /\ b_work[s][i].page = "closed"


(***************************************************************************)
(* SpecStream: one LLMClient.chat call with stream=True and a callback.    *)
(* chat starts a thread that runs _simulated_stream_response: it sends the *)
(* request, then hands the reply to the callback chunk by chunk.  A reply  *)
(* is the sequence of its characters, the k-th one written k; the message  *)
(* of the except branch is ErrorMessage.  Every invocation of the callback *)
(* returns or raises.                                                      *)
(***************************************************************************)
\* Bound: the length of the reply
MaxResponse == 16

\* chunk_size = 5
chunk_size == 5

ErrorMessage == <<"error_message">>

Min(a, b) == IF a <= b THEN a ELSE b

\* full_response[i : i + chunk_size]
Chunk(full_response, i) ==
    SubSeq(full_response, i + 1, Min(i + chunk_size, Len(full_response)))

\* chat(messages, context, stream=True, callback): the thread is started
Chat ==
    /\ l_pc = "chat"
    /\ l_pc' = "request"
    /\ UNCHANGED <<l_full, l_i, l_collected, l_calls, notl>>

\* full_response = self._send_chat_request(messages): a reply, or it raises
SendChatRequest ==
    /\ l_pc = "request"
    /\ \E raises \in BOOLEAN, n \in 0..MaxResponse :
          IF raises
          THEN l_pc' = "except" /\ l_full' = l_full
          ELSE l_pc' = "chunks" /\ l_full' = [k \in 1..n |-> k]
    /\ UNCHANGED <<l_i, l_collected, l_calls, notl>>

\* one round of the chunk loop: callback(collected_message, False)
CallbackChunk ==
    /\ l_pc = "chunks"
    /\ l_i < Len(l_full)
    /\ LET collected_message == l_collected \o Chunk(l_full, l_i)
       IN /\ l_collected' = collected_message
          /\ l_calls' = Append(l_calls, [message |-> collected_message, done |-> FALSE])
    /\ \E raises \in BOOLEAN :
          IF raises THEN l_pc' = "except" /\ l_i' = l_i
          ELSE l_pc' = l_pc /\ l_i' = l_i + chunk_size
    /\ UNCHANGED <<l_full, notl>>

\* after the loop, in the try: callback(full_response, True)
CallbackDone ==
    /\ l_pc = "chunks"
    /\ l_i >= Len(l_full)
    /\ l_calls' = Append(l_calls, [message |-> l_full, done |-> TRUE])
    /\ \E raises \in BOOLEAN : l_pc' = IF raises THEN "except" ELSE "ended"
    /\ UNCHANGED <<l_full, l_i, l_collected, notl>>

\* except Exception: callback(error_message, True); the thread ends
CallbackError ==
    /\ l_pc = "except"
    /\ l_calls' = Append(l_calls, [message |-> ErrorMessage, done |-> TRUE])
    /\ l_pc' = "ended"
    /\ UNCHANGED <<l_full, l_i, l_collected, notl>>

InitStream ==
    /\ l_pc = "chat" /\ l_full = <<>> /\ l_i = 0 /\ l_collected = <<>> /\ l_calls = <<>>
    /\ OldIdle /\ RegistryIdle /\ ParseIdle /\ EnrichIdle /\ BrowserIdle

NextStream == Chat \/ SendChatRequest \/ CallbackChunk \/ CallbackDone \/ CallbackError

SpecStream == InitStream /\ [][NextStream]_vars

IsPrefix(p, full) == Len(p) <= Len(full) /\ p = SubSeq(full, 1, Len(p))

\* C30: in streaming mode, whatever the request and the invocations of the
\* callback do, the callback is invoked with done=True exactly once, and
\* last; every invocation before it has done=False and carries a prefix of
\* the full response that is strictly longer than the one before.
C30_DoneOnceAndLast ==
    /\ \A k \in 1..Len(l_calls) : l_calls[k].done => k = Len(l_calls)
    /\ l_pc = "ended" => (l_calls # <<>> /\ l_calls[Len(l_calls)].done)
    /\ \A k \in 1..Len(l_calls) :
          ~l_calls[k].done =>
              /\ IsPrefix(l_calls[k].message, l_full)
              /\ Len(l_calls[k].message) > (IF k = 1 THEN 0 ELSE Len(l_calls[k - 1].message))

====
